---- MODULE Spec2Model ----
(***************************************************************************)
(* OCDScope: the sampler contract (src/sampler/mod.rs), its three backends *)
(* (fakesampler.rs, memsampler.rs, rttsampler.rs) and the UI state machine *)
(* that drives them (main.rs).                                             *)
(*                                                                         *)
(* One sampler exists at a time.  The worker thread is a process with a    *)
(* program counter wpc; the creating (UI) thread is the client.  The three *)
(* std::sync::mpsc channels of a sampler are the sequences command_q       *)
(* (unbounded), notif_q (unbounded) and sampled_q (sync_channel, bounded). *)
(***************************************************************************)
EXTENDS Integers, Sequences, FiniteSets, TLC

(***************************************************************************)
(* Bounds of the model.                                                    *)
(***************************************************************************)
\* capacity of the bounded sample channel, scaled down from SAMPLE_BUFFER_SIZE
\* (1024 in fakesampler.rs:5 and memsampler.rs:14, 10000 in rttsampler.rs:16)
SampleChannelCap == 2
\* commands (SetActiveSignals, Pause, Resume) a client sends to one sampler
MaxCommands == 2
\* ticks of the per-sampler clock (FakeSampler: t / period, MemSampler: Instant)
MaxClock == 2
\* samples a MemSampler emits in iterations that found no command queued
MaxSamples == 2
\* packets the target writes to the RTT stream of one sampler
MaxWire == 2
\* the value at which the target's T4 counter wraps: 2^32 in the code (a u32,
\* rttsampler.rs:478), scaled down because TLC's integers are 32-bit
TimestampWrap == 2
\* once-per-second rate notifications one RTT worker sends
MaxInfo == 1
\* samplers started in one run
MaxStarts == 2

VARIABLES
    debug_assertions,   \* cfg(debug_assertions) of the build
    backend,            \* which sampler was started last: "None", "Fake", "Mem", "RTT"
    has_u32_us_time,    \* RTT: packet_structure.has_u32_us_time
    handle,             \* the client owns the sampler (command_tx, sampled_rx, notifications_rx)
    cpc,                \* client thread: "idle", "joining" (inside stop()), "panicked"
    start_result,       \* outcome of the last start(): "none", "ok", "err", "panic"
    wpc,                \* worker thread position
    status,             \* sampler_thread: status
    maybe_new_status,   \* sampler_thread: maybe_new_status ("None" or a status)
    active_ids,         \* sampler_thread: active_ids / active_memory_addresses
    idx,                \* MemSampler: position in the for loop over active addresses
    samples,            \* MemSampler: the ids pushed to `samples` in this tick
    sampled_at,         \* MemSampler: sampled_at - start of this tick
    pending,            \* the Sample the worker is sending (<<>> or <<sample>>)
    buffer,             \* RTTSampler: complete packets in `buffer`, by their T4 value
    clock,              \* FakeSampler: t / period; MemSampler: Instant::now() - start
    command_q,          \* command channel
    notif_q,            \* notification channel
    sampled_q,          \* sample channel
    emitted,            \* history: notifications_tx.send calls of the worker, in order
    nsent,              \* history: Samples sent so far (sequence number of the last)
    received,           \* history: sequence numbers of the Samples the client received
    ncmds,              \* history: commands sent to this sampler
    nstarts,            \* history: samplers started
    ninfo,              \* history: rate notifications of this worker
    wire,               \* RTT TCP stream: packets written by the target, not yet read
    nwire,              \* history: packets written to the RTT stream
    target_halted,      \* OpenOCD: the target is halted
    target_us,          \* the target's 32-bit microsecond counter (the T4 field it writes)
    rtt_server,         \* OpenOCD: "stopped", "started" (rtt server on rtt_channel_tcp_port)
    ui_pc,              \* OCDScope::update: "update" (frame begins), "widgets" (after handle_messages)
    show_connect_dialog,        \* OCDScope.show_connect_dialog
    show_add_address_dialog,    \* OCDScope.show_add_address_dialog
    show_error_dialog,          \* OCDScope.show_error_dialog
    buffer_auto_truncate,       \* OCDScope.buffer_auto_truncate
    sampling_method,            \* OCDScope.sampling_method
    current_sampler,            \* OCDScope.current_sampler.is_some()
    signals,                    \* OCDScope.signals: sequence of [id, enabled]
    scope_samples,              \* OCDScope.samples: signal id -> times of its SampleBuffer
    two_samplers,       \* history: the connect handler ran while current_sampler was Some
    SampleBuffer_samples,       \* a SampleBuffer on its own: samples, a sequence of [x, y]
    SampleBuffer_call,          \* the last call on that buffer: its arguments and what it returned
    data_buffer,                \* GDBRemote.data_buffer
    last_rx_packet_timestamp,   \* GDBRemote.last_rx_packet_timestamp (None, or a timestamp)
    gdb_pc,                     \* GDBRemote::read_response: "idle", "loop", "feed"
    timeout_at,                 \* read_response: timeout_at
    Instant_now,                \* Instant::now(), in units of the timeout
    stream_rx,                  \* TCP stream: bytes the server wrote, not yet received
    stream_closed,              \* TCP stream: the server closed its end
    stream_tx,                  \* TCP stream: the last packet send_packet wrote, with its contents
    response,                   \* what the last read_response returned
    nframes,                    \* history: writes of the server
    nreads,                     \* history: read_response calls
    rx_timestamps,              \* history: for every byte of data_buffer that is '$' or '+',
                                \* the timestamp of the receive that delivered it
    response_rx,                \* history: that timestamp, for the first byte of `response`
    wire_log,           \* history: what this worker did on its GDB / telnet / RTT connection
                        \* before its loop, the `c` packet and `rtt server stop`, in order
    Mem_response,       \* MemSampler: `response` of the for loop (what read_response returned)
    channel_name,               \* argument of parse_scope_packet_structure
    packet_structure,           \* what parse_scope_packet_structure returned
    decode_bytes_call,          \* the call of decode_bytes on that structure: bytes and result
    tick_backend,               \* the sampler whose tick timing is followed: "None", "Fake", "Mem"
    tick_pc,                    \* its position: "none", "loop", "wait", "sleep", "sample", "notify", "done"
    tick_status,                \* sampler_thread: status
    tick_maybe_new_status,      \* sampler_thread: maybe_new_status
    last_sampled_at,            \* sampler_thread: last_sampled_at
    tick_now,                   \* Instant::now(), in units of half a period
    sleep_until,                \* thread::sleep: the instant the requested duration is over
    tts_connected,              \* a TimestampedTCPStream was returned by connect
    timestamping_enabled,       \* TimestampedTCPStream.timestamping_enabled
    SystemTime_now,             \* SystemTime::now()
    tts_call,                   \* the last call on the stream: what the system calls gave and
                                \* what the call returned
    telnet_buffer,              \* TelnetInterface.buffer
    telnet_connection,          \* telnet connection: bytes OpenOCD wrote, not yet read
    telnet_pc,                  \* TelnetInterface::read_line: "idle", "loop", "read"
    telnet_ret,                 \* what the last read_line returned
    telnet_received,            \* history: the bytes read from the connection, in order
    telnet_lines,               \* history: the lines read_line returned, in order
    rtt_packet_structure,       \* RTT worker at the level of bytes: its packet_structure
    rtt_pc,                     \* its position: "none", "loop", "read", "decode", "notify",
                                \* "done" (returned Ok), "err" (returned Err)
    rtt_status,                 \* its status
    rtt_maybe_new_status,       \* its maybe_new_status ("None" for None)
    rtt_command_rx,             \* the commands sent to it and not yet received
    rtt_ncommands,              \* how many commands were sent to it
    rtt_channel,                \* rtt_channel: bytes the target wrote, not yet read
    rtt_written,                \* how many bytes the target wrote after the synchronization
    rtt_buffer,                 \* its buffer
    rtt_sampled,                \* history: the Samples it sent on sampled_tx, in order
    rtt_received                \* history: the bytes it read, each with the status it had

workerVars == <<wpc, status, maybe_new_status, active_ids, idx, samples, sampled_at,
                pending, buffer, clock, emitted, nsent, ninfo>>
chanVars == <<command_q, notif_q, sampled_q>>
scopeVars == <<ui_pc, show_connect_dialog, show_add_address_dialog, show_error_dialog,
               buffer_auto_truncate, sampling_method, current_sampler, signals,
               scope_samples, two_samplers>>
bufferVars == <<SampleBuffer_samples, SampleBuffer_call>>
gdbVars == <<data_buffer, last_rx_packet_timestamp, gdb_pc, timeout_at, Instant_now,
             stream_rx, stream_closed, stream_tx, response, nframes, nreads,
             rx_timestamps, response_rx>>
parseVars == <<channel_name, packet_structure, decode_bytes_call>>
tickVars == <<tick_backend, tick_pc, tick_status, tick_maybe_new_status, last_sampled_at,
              tick_now, sleep_until>>
ttsVars == <<tts_connected, timestamping_enabled, SystemTime_now, tts_call>>
telnetVars == <<telnet_buffer, telnet_connection, telnet_pc, telnet_ret, telnet_received,
                telnet_lines>>
rttVars == <<rtt_packet_structure, rtt_pc, rtt_status, rtt_maybe_new_status, rtt_command_rx,
             rtt_ncommands, rtt_channel, rtt_written, rtt_buffer, rtt_sampled, rtt_received>>
unitVars == <<tickVars, ttsVars, telnetVars, rttVars>>
libVars == <<bufferVars, gdbVars, parseVars, unitVars>>
logVars == <<wire_log, Mem_response>>
clientData == <<debug_assertions, libVars, backend, has_u32_us_time, handle, cpc, start_result,
                received, ncmds, nstarts, scopeVars>>
clientVars == <<clientData, logVars>>
wireVars == <<wire, nwire, target_halted, target_us, rtt_server>>
vars == <<workerVars, chanVars, clientVars, wireVars>>

(***************************************************************************)
(* Data.                                                                   *)
(***************************************************************************)
\* Option::None, where Some(..) holds a natural number
None == -1

\* sampler::Status
Status == {"Initializing", "Sampling", "Paused", "Terminated"}

\* sampler::Notification
NewStatus(s) == [kind |-> "NewStatus", status |-> s]
Info == [kind |-> "Info", status |-> "-"]
Error == [kind |-> "Error", status |-> "-"]

\* ThreadCommand of the three backends (RTT has no SetActiveSignals)
Command(op, ids) == [op |-> op, ids |-> ids]
Stop == Command("Stop", <<>>)
Pause == Command("Pause", <<>>)
Resume == Command("Resume", <<>>)
SetActiveSignals(ids) == Command("SetActiveSignals", ids)

\* sampler::Sample = (u64, Vec<(u32, f64)>); seq is the history tag of the send
Sample(n, t, ids) == [seq |-> n, t |-> t, ids |-> ids]

\* lists of signal ids a client passes to set_active_signals
\* (FakeSampler::available_signals has the ids 0, 1, 2: 3 is not one of them)
IdLists == {<<>>, <<1, 0>>, <<3>>}

\* ys = [y0, y1, y2] in the FakeSampler's sampling step
FakeSignalCount == 3

\* the worker owns command_rx, sampled_tx and notifications_tx while
\* sampler_thread runs; they are dropped when it returns or unwinds
WorkerRunning ==
    wpc \notin {"none", "wrapper_ok", "wrapper_err", "done", "done_err", "panicked"}

\* JoinHandle::is_finished
is_finished == wpc \in {"done", "done_err", "panicked"}

(***************************************************************************)
(* Channel primitives (std::sync::mpsc).                                   *)
(***************************************************************************)
\* Sender::send on the unbounded notification channel: never blocks; the
\* messages are queued while the receiver (owned by the handle) lives
notifications_tx_send(ns) ==
    /\ emitted' = emitted \o ns
    /\ notif_q' = IF handle THEN notif_q \o ns ELSE notif_q

\* sampler_thread returned Err(..): the closure goes on to report it
ReturnErr ==
    /\ wpc' = "wrapper_err"
    /\ maybe_new_status' = "None"

\* SyncSender::send may complete: there is room, or the receiver is gone
\* (then it returns Err); on a full channel with a live receiver it blocks
SyncSendReady_NoBackpressure == TRUE
SyncSendReady == (~handle) \/ Len(sampled_q) < SampleChannelCap

\* sampled_tx.send(sample)?, then continue at `next`
sampled_tx_send(next) ==
    /\ pending # <<>>
    /\ SyncSendReady
    /\ IF handle
         THEN /\ sampled_q' = Append(sampled_q, pending[1])
              /\ nsent' = nsent + 1
              /\ wpc' = next
              /\ UNCHANGED maybe_new_status
         ELSE /\ ReturnErr
              /\ UNCHANGED <<sampled_q, nsent>>
    /\ pending' = <<>>

(***************************************************************************)
(* The closure given to thread::spawn in every start(): it runs            *)
(* sampler_thread and reports an Err as Error + NewStatus(Terminated).     *)
(***************************************************************************)
WrapperNotifications_Swapped == <<NewStatus("Terminated"), Error>>
WrapperNotifications_TerminatedOnly == <<NewStatus("Terminated")>>
WrapperNotifications == <<Error, NewStatus("Terminated")>>

thread_closure ==
    /\ wpc \in {"wrapper_ok", "wrapper_err"}
    /\ IF wpc = "wrapper_err"
         THEN notifications_tx_send(WrapperNotifications)
         ELSE UNCHANGED <<emitted, notif_q>>
    /\ wpc' = IF wpc = "wrapper_err" THEN "done_err" ELSE "done"
    \* the thread ends: its locals, command_rx and the RTT stream are dropped
    /\ maybe_new_status' = "None"
    /\ active_ids' = <<>>
    /\ idx' = 1
    /\ samples' = <<>>
    /\ sampled_at' = 0
    /\ pending' = <<>>
    /\ buffer' = <<>>
    /\ command_q' = <<>>
    /\ wire' = <<>>
    /\ UNCHANGED <<status, clock, nsent, ninfo, sampled_q, clientVars, nwire, target_halted,
                   target_us, rtt_server>>

\* bottom of the loop of every sampler_thread:
\*   match maybe_new_status { Some(new_status) if new_status != status => send?, .. }
notify_new_status ==
    /\ wpc = "notify"
    /\ IF maybe_new_status # "None" /\ maybe_new_status # status
         THEN /\ notifications_tx_send(<<NewStatus(maybe_new_status)>>)
              /\ IF handle
                   THEN /\ status' = maybe_new_status
                        /\ wpc' = "loop"
                   ELSE /\ wpc' = "wrapper_err"
                        /\ UNCHANGED status
         ELSE /\ wpc' = "loop"
              /\ UNCHANGED <<status, emitted, notif_q>>
    /\ maybe_new_status' = "None"
    /\ UNCHANGED <<active_ids, idx, samples, sampled_at, pending, buffer, clock, nsent,
                   ninfo, command_q, sampled_q, clientVars, wireVars>>

\* Status::Terminated => break; Ok(()) in the FakeSampler and the MemSampler
loop_Terminated ==
    /\ backend \in {"Fake", "Mem"}
    /\ wpc = "loop"
    /\ status = "Terminated"
    /\ wpc' = "wrapper_ok"
    /\ UNCHANGED <<status, maybe_new_status, active_ids, idx, samples, sampled_at, pending,
                   buffer, clock, emitted, nsent, ninfo, chanVars, clientVars, wireVars>>

\* the blocking send of the Sample built in this iteration (Fake, Mem)
send_sample ==
    /\ backend \in {"Fake", "Mem"}
    /\ wpc = "send"
    /\ sampled_tx_send("notify")
    /\ UNCHANGED <<status, active_ids, idx, samples, sampled_at, buffer, clock, emitted,
                   ninfo, command_q, notif_q, clientVars, wireVars>>

(***************************************************************************)
(* FakeSampler worker: fakesampler.rs, sampler_thread.                     *)
(***************************************************************************)
\* a faulty command match: Pause and Resume toggle the status
Fake_new_status_Toggle(st, c) ==
    CASE c.op = "Stop" -> "Terminated"
      [] c.op \in {"Pause", "Resume"} /\ st = "Sampling" -> "Paused"
      [] c.op \in {"Pause", "Resume"} /\ st = "Paused" -> "Sampling"
      [] OTHER -> "None"

\* what the worker does with a command received while Sampling / Paused:
\* the new value of maybe_new_status
Fake_new_status(st, c) ==
    CASE c.op = "Stop" -> "Terminated"
      [] c.op = "Pause" /\ st = "Sampling" -> "Paused"
      [] c.op = "Resume" /\ st = "Paused" -> "Sampling"
      [] OTHER -> "None"

\* Status::Initializing => maybe_new_status = Some(Status::Sampling)
Fake_Initializing ==
    /\ backend = "Fake" /\ wpc = "loop" /\ status = "Initializing"
    /\ maybe_new_status' = "Sampling"
    /\ wpc' = "notify"
    /\ UNCHANGED <<status, active_ids, idx, samples, sampled_at, pending, buffer, clock,
                   emitted, nsent, ninfo, chanVars, clientVars, wireVars>>

\* Status::Sampling, command_rx.try_recv() returned Ok(command)
Fake_Sampling_command ==
    /\ backend = "Fake" /\ wpc = "loop" /\ status = "Sampling"
    /\ command_q # <<>>
    /\ command_q' = Tail(command_q)
    /\ maybe_new_status' = Fake_new_status(status, Head(command_q))
    /\ active_ids' = IF Head(command_q).op = "SetActiveSignals"
                       THEN Head(command_q).ids ELSE active_ids
    /\ wpc' = "notify"
    /\ UNCHANGED <<status, idx, samples, sampled_at, pending, buffer, clock, emitted, nsent,
                   ninfo, notif_q, sampled_q, clientVars, wireVars>>

\* ys[id as usize] for every active id: an id outside ys panics
Fake_index_in_bounds(ids) == \A i \in 1..Len(ids) : ids[i] < FakeSignalCount

\* a faulty Sample: an entry for every signal
Fake_sample_ids_All(ids) == [i \in 1..FakeSignalCount |-> i - 1]

\* active_ids.iter().map(|&id| (id, ys[id as usize])): the ids of the Sample's entries
Fake_sample_ids(ids) == ids

\* Status::Sampling, try_recv() returned Err(Empty): wait for the tick, t += period,
\* build the Sample of the active ids with timestamp (t * 1e6) as u64
Fake_Sampling_tick ==
    /\ backend = "Fake" /\ wpc = "loop" /\ status = "Sampling"
    /\ command_q = <<>> /\ handle
    /\ clock < MaxClock
    /\ clock' = clock + 1
    /\ IF active_ids = <<>>
         THEN /\ wpc' = "notify"
              /\ UNCHANGED pending
         ELSE IF Fake_index_in_bounds(active_ids)
                THEN /\ pending' = <<Sample(nsent + 1, clock', Fake_sample_ids(active_ids))>>
                     /\ wpc' = "send"
                ELSE /\ wpc' = "panicked"
                     /\ UNCHANGED pending
    /\ UNCHANGED <<status, maybe_new_status, active_ids, idx, samples, sampled_at, buffer,
                   emitted, nsent, ninfo, chanVars, clientVars, wireVars>>

\* try_recv() / recv() returned Err(Disconnected): the handle was dropped
Fake_command_channel_closed ==
    /\ backend = "Fake" /\ wpc = "loop" /\ status \in {"Sampling", "Paused"}
    /\ command_q = <<>> /\ ~handle
    /\ ReturnErr
    /\ UNCHANGED <<status, active_ids, idx, samples, sampled_at, pending, buffer, clock,
                   emitted, nsent, ninfo, chanVars, clientVars, wireVars>>

\* Status::Paused => match command_rx.recv(): blocks until a command arrives
Fake_Paused_command ==
    /\ backend = "Fake" /\ wpc = "loop" /\ status = "Paused"
    /\ command_q # <<>>
    /\ command_q' = Tail(command_q)
    /\ maybe_new_status' = Fake_new_status(status, Head(command_q))
    /\ active_ids' = IF Head(command_q).op = "SetActiveSignals"
                       THEN Head(command_q).ids ELSE active_ids
    /\ wpc' = "notify"
    /\ UNCHANGED <<status, idx, samples, sampled_at, pending, buffer, clock, emitted, nsent,
                   ninfo, notif_q, sampled_q, clientVars, wireVars>>

(***************************************************************************)
(* MemSampler worker: memsampler.rs, sampler_thread.                       *)
(***************************************************************************)
\* what gdb.read_response() can return: an Ack, the packets "OK", "O", one whose
\* body is a hexadecimal 32-bit word, any other packet, Err(Timeout), or another Err
\* (EndOfStream, IOError)
GdbResponses == {"Ack", "OK", "O", "hex", "other", "Timeout", "error"}

\* what a read of the handshake can return: an Ack, a packet, an Err
HandshakeResponses == {"Ack", "OK", "Timeout"}

\* what connect and send_packet can return: Ok, or an Err
SendResults == {"OK", "error"}

\* a faulty handshake step: whatever the call returns, the worker goes on
Mem_handshake_step_AnyResponse(at, next, op, results, expected) ==
    /\ backend = "Mem" /\ wpc = at
    /\ \E r \in results :
         /\ wire_log' = Append(wire_log, [op |-> op, result |-> r])
         /\ wpc' = next /\ UNCHANGED maybe_new_status
    /\ UNCHANGED <<status, active_ids, idx, samples, sampled_at, pending, buffer, clock,
                   emitted, nsent, ninfo, chanVars, clientData, Mem_response, wireVars>>

\* one step of the handshake before the loop: the call `op` at `at` returns one of
\* `results`; with the expected one the worker goes on to `next`, with any other
\* sampler_thread returns Err
Mem_handshake_step(at, next, op, results, expected) ==
    /\ backend = "Mem" /\ wpc = at
    /\ \E r \in results :
         /\ wire_log' = Append(wire_log, [op |-> op, result |-> r])
         /\ IF r = expected
              THEN wpc' = next /\ UNCHANGED maybe_new_status
              ELSE ReturnErr
    /\ UNCHANGED <<status, active_ids, idx, samples, sampled_at, pending, buffer, clock,
                   emitted, nsent, ninfo, chanVars, clientData, Mem_response, wireVars>>

\* GDBRemote::connect(address)?
Mem_connect ==
    Mem_handshake_step("m_connect", "m_ack0", "connect", SendResults, "OK")
\* if !gdb.read_response()?.is_ack() { bail }
Mem_initial_ack ==
    Mem_handshake_step("m_ack0", "m_qstart", "read_response", HandshakeResponses, "Ack")
\* gdb.send_packet("QStartNoAckMode")?
Mem_send_QStartNoAckMode ==
    Mem_handshake_step("m_qstart", "m_qack", "send_packet QStartNoAckMode", SendResults, "OK")
\* if !gdb.read_response()?.is_ack() { bail }
Mem_QStartNoAckMode_ack ==
    Mem_handshake_step("m_qack", "m_qok", "read_response", HandshakeResponses, "Ack")
\* if !gdb.read_response()?.is_packet_with("OK") { bail }
Mem_QStartNoAckMode_ok ==
    Mem_handshake_step("m_qok", "loop", "read_response", HandshakeResponses, "OK")

\* Status::Initializing => gdb.send_packet("c")?; maybe_new_status = Some(Sampling)
Mem_Initializing ==
    /\ backend = "Mem" /\ wpc = "loop" /\ status = "Initializing"
    /\ \E r \in SendResults :
         /\ wire_log' = Append(wire_log, [op |-> "send_packet c", result |-> r])
         /\ IF r = "OK"
              THEN maybe_new_status' = "Sampling" /\ wpc' = "notify"
              ELSE ReturnErr
    /\ UNCHANGED <<status, active_ids, idx, samples, sampled_at, pending, buffer, clock,
                   emitted, nsent, ninfo, chanVars, clientData, Mem_response, wireVars>>

\* the command match of the Sampling arm: new value of maybe_new_status
Mem_Sampling_new_status(c) ==
    CASE c.op = "Stop" -> "Terminated"
      [] c.op = "Pause" -> "Paused"
      [] OTHER -> "None"

\* a faulty tick: `samples` is not a new Vec
Mem_tick_KeepsSamples ==
    /\ \E d \in 0..1 :
         /\ clock + d <= MaxClock
         /\ clock' = clock + d
    /\ sampled_at' = clock'
    /\ idx' = 1
    /\ samples' = samples
    /\ wpc' = "m_req"

\* steps 2 and 3 up to the for loop: wait for the tick, sampled_at = Instant::now(),
\* samples = Vec::new()
Mem_tick ==
    /\ \E d \in 0..1 :
         /\ clock + d <= MaxClock
         /\ clock' = clock + d
    /\ sampled_at' = clock'
    /\ idx' = 1
    /\ samples' = <<>>
    /\ wpc' = "m_req"

\* Status::Sampling, try_recv() returned Ok(command); the arm then goes on to sample
Mem_Sampling_command ==
    /\ backend = "Mem" /\ wpc = "loop" /\ status = "Sampling"
    /\ command_q # <<>>
    /\ command_q' = Tail(command_q)
    /\ maybe_new_status' = Mem_Sampling_new_status(Head(command_q))
    /\ active_ids' = IF Head(command_q).op = "SetActiveSignals"
                       THEN Head(command_q).ids ELSE active_ids
    /\ Mem_tick
    /\ UNCHANGED <<status, pending, buffer, emitted, nsent, ninfo, notif_q, sampled_q,
                   clientVars, wireVars>>

\* Status::Sampling, try_recv() returned Err(Empty)
Mem_Sampling_no_command ==
    /\ backend = "Mem" /\ wpc = "loop" /\ status = "Sampling"
    /\ command_q = <<>> /\ handle
    /\ active_ids = <<>> \/ nsent < MaxSamples
    /\ Mem_tick
    /\ UNCHANGED <<status, maybe_new_status, active_ids, pending, buffer, emitted, nsent,
                   ninfo, chanVars, clientVars, wireVars>>

\* try_recv() returned Err(Disconnected) / recv() returned Err
Mem_command_channel_closed ==
    /\ backend = "Mem" /\ wpc = "loop" /\ status \in {"Sampling", "Paused"}
    /\ command_q = <<>> /\ ~handle
    /\ ReturnErr
    /\ UNCHANGED <<status, active_ids, idx, samples, sampled_at, pending, buffer, clock,
                   emitted, nsent, ninfo, chanVars, clientVars, wireVars>>

\* for &memory_address in &active_memory_addresses: gdb.send_packet("m <addr>,4")?
\* and, after the last address, if samples.len() > 0 { sampled_tx.send(..)? }
Mem_request ==
    /\ backend = "Mem" /\ wpc = "m_req"
    /\ IF idx <= Len(active_ids)
         THEN /\ \E sent \in BOOLEAN :
                   IF sent
                     THEN wpc' = "m_read" /\ UNCHANGED maybe_new_status
                     ELSE ReturnErr
              /\ UNCHANGED pending
         ELSE /\ IF samples # <<>>
                   THEN /\ pending' = <<Sample(nsent + 1, sampled_at, samples)>>
                        /\ wpc' = "send"
                   ELSE /\ wpc' = "notify"
                        /\ UNCHANGED pending
              /\ UNCHANGED maybe_new_status
    /\ UNCHANGED <<status, active_ids, idx, samples, sampled_at, buffer, clock, emitted,
                   nsent, ninfo, chanVars, clientVars, wireVars>>

\* loop { let response = gdb.read_response()..: the call returns
Mem_read_response ==
    /\ backend = "Mem" /\ wpc = "m_read"
    /\ \E r \in GdbResponses : Mem_response' = r
    /\ wpc' = "m_match"
    /\ UNCHANGED <<status, maybe_new_status, active_ids, idx, samples, sampled_at, pending,
                   buffer, clock, emitted, nsent, ninfo, chanVars, clientData, wire_log,
                   wireVars>>

\* a faulty first arm of the match: no packet is taken for a console packet
Mem_is_console_packet_Never(r) == FALSE

\* Response::Packet(data) if data == b"O"
Mem_is_console_packet(r) == r = "O"

\* ..?; match response { .. } }: an Err is returned by `?`; the packet "O" is skipped, a
\* hexadecimal word is pushed and ends the loop, anything else bails in a debug build
\* and is skipped in a release build
Mem_match_response ==
    /\ backend = "Mem" /\ wpc = "m_match"
    /\ CASE Mem_response \in {"Timeout", "error"} ->
                /\ ReturnErr
                /\ UNCHANGED <<idx, samples, Mem_response>>
         [] Mem_is_console_packet(Mem_response) ->
                /\ wpc' = "m_read"
                /\ UNCHANGED <<maybe_new_status, idx, samples, Mem_response>>
         [] Mem_response = "hex" ->
                /\ samples' = Append(samples, active_ids[idx])
                /\ idx' = idx + 1
                /\ wpc' = "m_req"
                /\ Mem_response' = "None"
                /\ UNCHANGED maybe_new_status
         [] OTHER ->
                IF debug_assertions
                  THEN ReturnErr /\ UNCHANGED <<idx, samples, Mem_response>>
                  ELSE /\ wpc' = "m_read"
                       /\ Mem_response' = "None"
                       /\ UNCHANGED <<maybe_new_status, idx, samples>>
    /\ UNCHANGED <<status, active_ids, sampled_at, pending, buffer, clock, emitted, nsent,
                   ninfo, chanVars, clientData, wire_log, wireVars>>

\* a faulty Paused arm: Resume starts over from Initializing
Mem_Paused_new_status_Reinitialize(c) ==
    CASE c.op = "Stop" -> "Terminated"
      [] c.op = "Resume" -> "Initializing"
      [] OTHER -> "None"

\* the command match of the Paused arm: new value of maybe_new_status
Mem_Paused_new_status(c) ==
    CASE c.op = "Stop" -> "Terminated"
      [] c.op = "Resume" -> "Sampling"
      [] OTHER -> "None"

\* Status::Paused => match command_rx.recv()
Mem_Paused_command ==
    /\ backend = "Mem" /\ wpc = "loop" /\ status = "Paused"
    /\ command_q # <<>>
    /\ command_q' = Tail(command_q)
    /\ maybe_new_status' = Mem_Paused_new_status(Head(command_q))
    /\ active_ids' = IF Head(command_q).op = "SetActiveSignals"
                       THEN Head(command_q).ids ELSE active_ids
    /\ wpc' = "notify"
    /\ UNCHANGED <<status, idx, samples, sampled_at, pending, buffer, clock, emitted, nsent,
                   ninfo, notif_q, sampled_q, clientVars, wireVars>>

(***************************************************************************)
(* RTTSampler worker: rttsampler.rs, sampler_thread.                       *)
(***************************************************************************)
rttLocals == <<status, active_ids, idx, samples, sampled_at, pending, buffer, clock, nsent,
               ninfo>>

\* one fallible call of the worker's initialization: Ok goes on to `next`
RTT_init_step(at, next) ==
    /\ backend = "RTT" /\ wpc = at
    /\ \E ok \in BOOLEAN :
         IF ok
           THEN wpc' = next /\ UNCHANGED maybe_new_status
           ELSE ReturnErr

\* openocd::TelnetInterface::connect(telnet_address).context(..)?
RTT_connect_telnet ==
    /\ RTT_init_step("r_connect", "r_port")
    /\ UNCHANGED <<rttLocals, emitted, chanVars, clientVars, wireVars>>

\* crate::utils::find_free_tcp_port()?
RTT_find_free_tcp_port ==
    /\ RTT_init_step("r_port", "r_server")
    /\ UNCHANGED <<rttLocals, emitted, chanVars, clientVars, wireVars>>

\* openocd.rtt_server_start(rtt_channel_tcp_port, rtt_channel_id).context(..)?
RTT_rtt_server_start ==
    /\ RTT_init_step("r_server", "r_tcp")
    /\ rtt_server' = IF wpc' = "r_tcp" THEN "started" ELSE rtt_server
    /\ wire_log' = Append(wire_log, [op |-> "rtt server start",
                                     result |-> IF wpc' = "r_tcp" THEN "ok" ELSE "error"])
    /\ UNCHANGED <<rttLocals, emitted, chanVars, clientData, Mem_response, wire, nwire,
                   target_halted, target_us>>

\* TcpStream::connect(rtt_channel_tcp_address).context(..)?; info("RTT TCP stream connected")
RTT_connect_stream ==
    /\ RTT_init_step("r_tcp", "r_halt")
    /\ IF wpc' = "r_halt"
         THEN notifications_tx_send(<<Info>>)
         ELSE UNCHANGED <<emitted, notif_q>>
    /\ UNCHANGED <<rttLocals, command_q, sampled_q, clientVars, wireVars>>

\* synchronize_rtt_channel: match openocd.halt() { Ok, Err(Timeout) => go on, Err => bail }
RTT_sync_halt ==
    /\ backend = "RTT" /\ wpc = "r_halt"
    /\ \E r \in {"ok", "timeout", "error"} :
         /\ CASE r = "ok" ->
                /\ target_halted' = TRUE
                /\ wpc' = "r_drain" /\ UNCHANGED maybe_new_status
           [] r = "timeout" ->
                /\ UNCHANGED target_halted
                /\ wpc' = "r_drain" /\ UNCHANGED maybe_new_status
           [] OTHER ->
                /\ UNCHANGED target_halted
                /\ ReturnErr
         /\ wire_log' = Append(wire_log, [op |-> "halt", result |-> r])
    /\ UNCHANGED <<rttLocals, emitted, chanVars, clientData, Mem_response, wire, nwire,
                   target_us, rtt_server>>

\* a faulty end of the drain loop: the end of the stream ends it too
sync_completed_OnClose == {"timeout", "closed"}

\* the read results that end the drain loop: ErrorKind::WouldBlock, ErrorKind::TimedOut
sync_completed == {"timeout"}

\* synchronize_rtt_channel: the loop that reads the stream until WouldBlock / TimedOut
RTT_sync_drain ==
    /\ backend = "RTT" /\ wpc = "r_drain"
    /\ IF wire # <<>>
         THEN \* Ok(n): thrown away
              /\ wire' = <<>>
              /\ wire_log' = Append(wire_log, [op |-> "read", result |-> "data"])
              /\ UNCHANGED <<wpc, maybe_new_status>>
         ELSE \* WouldBlock / TimedOut ends the loop; Ok(0) (the remote end closed
              \* the stream) and any other Err bail
              /\ UNCHANGED wire
              /\ \E r \in {"timeout", "closed", "error"} :
                   /\ wire_log' = Append(wire_log, [op |-> "read", result |-> r])
                   /\ IF r \in sync_completed
                        THEN wpc' = "r_resume" /\ UNCHANGED maybe_new_status
                        ELSE ReturnErr
    /\ UNCHANGED <<rttLocals, emitted, chanVars, clientData, Mem_response, nwire,
                   target_halted, target_us, rtt_server>>

\* synchronize_rtt_channel: openocd.resume().context(..)?; info("RTT stream synchronized")
RTT_sync_resume ==
    /\ RTT_init_step("r_resume", "r_timeout")
    /\ IF wpc' = "r_timeout"
         THEN /\ target_halted' = FALSE
              /\ notifications_tx_send(<<Info>>)
         ELSE UNCHANGED <<target_halted, emitted, notif_q>>
    /\ wire_log' = Append(wire_log, [op |-> "resume",
                                     result |-> IF wpc' = "r_timeout" THEN "ok" ELSE "error"])
    /\ UNCHANGED <<rttLocals, command_q, sampled_q, clientData, Mem_response, wire, nwire,
                   target_us, rtt_server>>

\* rtt_channel.set_read_timeout(Some(polling_period)).context(..)?
RTT_set_read_timeout ==
    /\ RTT_init_step("r_timeout", "loop")
    /\ UNCHANGED <<rttLocals, emitted, chanVars, clientVars, wireVars>>

\* Status::Initializing => maybe_new_status = Some(Status::Sampling)
RTT_Initializing ==
    /\ backend = "RTT" /\ wpc = "loop" /\ status = "Initializing"
    /\ maybe_new_status' = "Sampling"
    /\ wpc' = "notify"
    /\ UNCHANGED <<rttLocals, emitted, chanVars, clientVars, wireVars>>

\* the command match of the Sampling | Paused arm: new value of maybe_new_status
RTT_new_status(st, c) ==
    CASE c.op = "Stop" -> "Terminated"
      [] c.op = "Pause" /\ st = "Sampling" -> "Paused"
      [] c.op = "Resume" /\ st = "Paused" -> "Sampling"
      [] OTHER -> "None"

\* the statuses of the match arm that polls the command channel and the stream
RTT_sampling_arm_AnyStatus == {"Sampling", "Paused", "Terminated"}
RTT_sampling_arm == {"Sampling", "Paused"}

\* Status::Sampling | Status::Paused: command_rx.try_recv()
RTT_try_recv ==
    /\ backend = "RTT" /\ wpc = "loop" /\ status \in RTT_sampling_arm
    /\ IF command_q # <<>>
         THEN /\ command_q' = Tail(command_q)
              /\ maybe_new_status' = RTT_new_status(status, Head(command_q))
              /\ wpc' = "r_read"
         ELSE /\ UNCHANGED command_q
              /\ IF handle
                   THEN wpc' = "r_read" /\ UNCHANGED maybe_new_status
                   ELSE ReturnErr
    /\ UNCHANGED <<rttLocals, emitted, notif_q, sampled_q, clientVars, wireVars>>

\* let read_result = rtt_channel.read(&mut read_buffer); match read_result { .. }
RTT_read ==
    /\ backend = "RTT" /\ wpc = "r_read"
    /\ IF wire # <<>>
         THEN \* Ok(n) if n > 0
              /\ buffer' = buffer \o wire
              /\ wire' = <<>>
              /\ wpc' = "r_decode"
              /\ UNCHANGED maybe_new_status
         ELSE \* WouldBlock / TimedOut, another Err (only logged), or Ok(0): the
              \* remote end closed the stream
              /\ UNCHANGED <<buffer, wire>>
              /\ \E r \in {"timeout", "error", "closed"} :
                   IF r = "closed"
                     THEN ReturnErr
                     ELSE wpc' = "r_decode" /\ UNCHANGED maybe_new_status
    /\ UNCHANGED <<status, active_ids, idx, samples, sampled_at, pending, clock, nsent, ninfo,
                   emitted, chanVars, clientVars, nwire, target_halted,
                   target_us, rtt_server>>

\* ids 0..n-1 of the fields of the packet structure (one field in this model)
RTT_signal_ids == <<0>>

\* while buffer.len() >= packet_size { .. }: one packet, or the end of the loop
RTT_decode ==
    /\ backend = "RTT" /\ wpc = "r_decode"
    /\ IF buffer = <<>>
         THEN /\ wpc' = "r_rate"
              /\ UNCHANGED <<buffer, pending, sampled_q, nsent, maybe_new_status>>
         ELSE IF status # "Sampling"
           THEN /\ buffer' = Tail(buffer)
                /\ UNCHANGED <<wpc, pending, sampled_q, nsent, maybe_new_status>>
           ELSE IF ~has_u32_us_time
             THEN \* maybe_timestamp.context("timestamp not provided")?
                  /\ ReturnErr
                  /\ UNCHANGED <<buffer, pending, sampled_q, nsent>>
             ELSE /\ pending' = <<Sample(nsent + 1, Head(buffer), RTT_signal_ids)>>
                  /\ buffer' = Tail(buffer)
                  /\ wpc' = "r_send"
                  /\ UNCHANGED <<sampled_q, nsent, maybe_new_status>>
    /\ UNCHANGED <<status, active_ids, idx, samples, sampled_at, clock, ninfo, emitted,
                   command_q, notif_q, clientVars, wireVars>>

\* sampled_tx.send((timestamp, samples)).context(..)? inside the while loop
RTT_send_sample ==
    /\ backend = "RTT" /\ wpc = "r_send"
    /\ sampled_tx_send("r_decode")
    /\ UNCHANGED <<status, active_ids, idx, samples, sampled_at, buffer, clock, emitted,
                   ninfo, command_q, notif_q, clientVars, wireVars>>

\* if now - previous_rate_measurement_instant >= 1 s { send Info("N samples/s") }
RTT_rate_measurement ==
    /\ backend = "RTT" /\ wpc = "r_rate"
    /\ \E due \in BOOLEAN :
         IF due /\ ninfo < MaxInfo
           THEN /\ notifications_tx_send(<<Info>>)
                /\ ninfo' = ninfo + 1
           ELSE UNCHANGED <<emitted, notif_q, ninfo>>
    /\ wpc' = "notify"
    /\ UNCHANGED <<status, maybe_new_status, active_ids, idx, samples, sampled_at, pending,
                   buffer, clock, nsent, command_q, sampled_q, clientVars, wireVars>>

\* Status::Terminated => openocd.rtt_server_stop(port).context(..)?; break
RTT_Terminated ==
    /\ backend = "RTT" /\ wpc = "loop" /\ status = "Terminated"
    /\ \E ok \in BOOLEAN :
         /\ wire_log' = Append(wire_log, [op |-> "rtt server stop",
                                          result |-> IF ok THEN "ok" ELSE "error"])
         /\ IF ok
              THEN /\ rtt_server' = "stopped"
                   /\ wpc' = "wrapper_ok"
                   /\ UNCHANGED maybe_new_status
              ELSE /\ ReturnErr
                   /\ UNCHANGED rtt_server
    /\ UNCHANGED <<rttLocals, emitted, chanVars, clientData, Mem_response, wire, nwire,
                   target_halted, target_us>>

\* the target writes one packet to its RTT ring buffer, relayed to the TCP stream
Target_write_packet ==
    /\ backend = "RTT" /\ WorkerRunning /\ rtt_server = "started"
    /\ ~target_halted
    /\ nwire < MaxWire
    /\ \E d \in 0..1 : target_us' = (target_us + d) % TimestampWrap
    /\ wire' = Append(wire, target_us')
    /\ nwire' = nwire + 1
    /\ UNCHANGED <<workerVars, chanVars, clientVars, target_halted, rtt_server>>

(***************************************************************************)
(* The sampler contract, as called by the thread that owns the handle      *)
(* (impl Sampler for FakeSampler / MemSampler / RTTSampler, and start).    *)
(***************************************************************************)
\* let mut status = Status::Initializing; at the top of every sampler_thread
InitialStatus_Sampling == "Sampling"
InitialStatus == "Initializing"

\* the state start() leaves behind once thread::spawn has run: fresh channels,
\* a worker at the top of sampler_thread
spawned(b, entry, commands) ==
    /\ backend' = b
    /\ wpc' = entry
    /\ status' = InitialStatus
    /\ maybe_new_status' = "None"
    /\ active_ids' = <<>>
    /\ idx' = 1
    /\ samples' = <<>>
    /\ sampled_at' = 0
    /\ pending' = <<>>
    /\ buffer' = <<>>
    /\ clock' = 0
    /\ command_q' = commands
    /\ notif_q' = <<>>
    /\ sampled_q' = <<>>
    /\ emitted' = <<>>
    /\ nsent' = 0
    /\ received' = <<>>
    /\ ncmds' = 0
    /\ ninfo' = 0
    /\ wire' = <<>>
    /\ nwire' = 0
    /\ target_halted' = FALSE
    /\ rtt_server' = "stopped"
    /\ wire_log' = <<>>
    /\ Mem_response' = "None"

\* no thread was spawned: what is left of an earlier, finished sampler is forgotten
no_worker(b) ==
    /\ backend' = b
    /\ wpc' = "none"
    /\ status' = "Initializing"
    /\ maybe_new_status' = "None"
    /\ active_ids' = <<>>
    /\ idx' = 1
    /\ samples' = <<>>
    /\ sampled_at' = 0
    /\ pending' = <<>>
    /\ buffer' = <<>>
    /\ clock' = 0
    /\ command_q' = <<>>
    /\ notif_q' = <<>>
    /\ sampled_q' = <<>>
    /\ emitted' = <<>>
    /\ nsent' = 0
    /\ received' = <<>>
    /\ ncmds' = 0
    /\ ninfo' = 0
    /\ wire' = <<>>
    /\ nwire' = 0
    /\ target_halted' = FALSE
    /\ rtt_server' = "stopped"
    /\ wire_log' = <<>>
    /\ Mem_response' = "None"

\* start() returned Err before thread::spawn: nothing of a sampler exists
not_spawned(b) ==
    /\ no_worker(b)
    /\ handle' = FALSE
    /\ start_result' = "err"

\* nothing of a sampler is left (no thread, no channels, no stream); the histories,
\* which are per sampler, start over
no_sampler ==
    /\ no_worker("None")
    /\ has_u32_us_time' = TRUE
    /\ target_us' = 0

\* a sampler can be started: the caller holds none and no worker is left running
CanStart ==
    /\ cpc = "idle" /\ ~handle
    /\ wpc = "none" \/ is_finished
    /\ nstarts < MaxStarts

\* FakeSampler::start(rate)
FakeSampler_start ==
    /\ CanStart
    /\ spawned("Fake", "loop", <<>>)
    /\ handle' = TRUE
    /\ start_result' = "ok"
    /\ nstarts' = nstarts + 1
    /\ UNCHANGED <<debug_assertions, libVars, has_u32_us_time, cpc, target_us, scopeVars>>

\* MemSampler::start(address, rate, maybe_elf_filename): the position of
\* thread::spawn relative to the fallible steps
Mem_spawn_before_elf(elf) == TRUE

\* MemSampler::start: address resolution, thread::spawn, then parse_elf_symbols
\* (which unwraps: an unreadable or malformed ELF file panics in the caller)
MemSampler_start ==
    /\ CanStart
    /\ \E address_ok \in BOOLEAN, elf \in {"none", "ok", "bad"} :
         IF ~address_ok
           THEN /\ not_spawned("Mem")
                /\ UNCHANGED cpc
           ELSE /\ IF Mem_spawn_before_elf(elf)
                     THEN spawned("Mem", "m_connect", <<>>)
                     ELSE no_worker("Mem")
                /\ IF elf = "bad"
                     THEN /\ handle' = FALSE
                          /\ start_result' = "panic"
                          /\ cpc' = "panicked"
                     ELSE /\ handle' = TRUE
                          /\ start_result' = "ok"
                          /\ UNCHANGED cpc
    /\ nstarts' = nstarts + 1
    /\ UNCHANGED <<debug_assertions, libVars, has_u32_us_time, target_us, scopeVars>>

\* the fallible steps of RTTSampler::start, all before thread::spawn
RTTStartSteps == {"connect", "rtt_stop", "rtt_setup", "rtt_start", "set_adapter_speed",
                  "set_rtt_polling_interval", "rtt_channels", "no_channel",
                  "parse_scope_packet_structure"}

\* values the target's microsecond counter may have when a session begins
TargetTimes == {0, TimestampWrap - 1}

\* RTTSampler::start(telnet_address, polling_interval)
RTTSampler_start ==
    /\ CanStart
    /\ \E failed \in RTTStartSteps \cup {"none"} :
         IF failed # "none"
           THEN /\ not_spawned("RTT")
                /\ UNCHANGED <<has_u32_us_time, target_us>>
           ELSE /\ spawned("RTT", "r_connect", <<>>)
                /\ handle' = TRUE
                /\ start_result' = "ok"
                /\ has_u32_us_time' \in BOOLEAN
                /\ target_us' \in TargetTimes
    /\ nstarts' = nstarts + 1
    /\ UNCHANGED <<debug_assertions, libVars, cpc, scopeVars>>

\* command_tx.send(command): queued while the worker holds command_rx
command_tx_send(c) ==
    command_q' = IF WorkerRunning THEN Append(command_q, c) ELSE command_q

\* the caller panics (an unwrap on a failed send, a failed debug_assert):
\* unwinding drops the handle
caller_panics ==
    /\ cpc' = "panicked"
    /\ handle' = FALSE
    /\ notif_q' = <<>>
    /\ sampled_q' = <<>>

\* a command sent by set_active_signals / pause / resume:
\* FakeSampler unwraps the send, MemSampler and RTTSampler log a failure
send_command(c) ==
    /\ handle /\ cpc = "idle"
    /\ ncmds < MaxCommands
    /\ ncmds' = ncmds + 1
    /\ IF backend = "Fake" /\ ~WorkerRunning
         THEN /\ caller_panics
              /\ UNCHANGED command_q
         ELSE /\ command_tx_send(c)
              /\ UNCHANGED <<cpc, handle, notif_q, sampled_q>>
    /\ UNCHANGED <<logVars, workerVars, debug_assertions, libVars, backend, has_u32_us_time,
                   start_result, received, nstarts, wireVars, scopeVars>>

\* Sampler::set_active_signals(ids); RTTSampler ignores it
set_active_signals ==
    \E ids \in IdLists :
        IF backend = "RTT"
          THEN /\ handle /\ cpc = "idle"
               /\ UNCHANGED vars
          ELSE send_command(SetActiveSignals(ids))

\* Sampler::pause()
pause == send_command(Pause)

\* Sampler::resume()
resume == send_command(Resume)

\* Sampler::stop(self: Box<Self>), up to the join: send Stop; if the send fails,
\* debug_assert!(self.join_handle.is_finished())
stop ==
    /\ handle /\ cpc = "idle"
    /\ IF ~WorkerRunning /\ debug_assertions /\ ~is_finished
         THEN /\ caller_panics
              /\ UNCHANGED command_q
         ELSE /\ command_tx_send(Stop)
              /\ cpc' = "joining"
              /\ UNCHANGED <<handle, notif_q, sampled_q>>
    /\ UNCHANGED <<logVars, workerVars, debug_assertions, libVars, backend, has_u32_us_time,
                   start_result, received, ncmds, nstarts, wireVars, scopeVars>>

\* Sampler::stop: self.join_handle.join() returns, the handle is dropped
join ==
    /\ cpc = "joining"
    /\ is_finished
    /\ cpc' = "idle"
    /\ handle' = FALSE
    /\ no_sampler
    /\ UNCHANGED <<debug_assertions, libVars, start_result, nstarts, scopeVars>>

\* sampler.sampled_channel().try_recv() returned Ok(sample)
recv_sample ==
    /\ handle /\ cpc = "idle"
    /\ sampled_q # <<>>
    /\ received' = Append(received, Head(sampled_q).seq)
    /\ sampled_q' = Tail(sampled_q)
    /\ UNCHANGED <<logVars, workerVars, command_q, notif_q, debug_assertions, libVars,
                   backend, has_u32_us_time, handle, cpc, start_result, ncmds, nstarts,
                   wireVars, scopeVars>>

\* the Box<dyn Sampler> is dropped without stop()
drop_handle ==
    /\ handle /\ cpc = "idle"
    /\ handle' = FALSE
    /\ notif_q' = <<>>
    /\ sampled_q' = <<>>
    /\ UNCHANGED <<logVars, workerVars, command_q, debug_assertions, libVars, backend,
                   has_u32_us_time, cpc, start_result, received, ncmds, nstarts, wireVars,
                   scopeVars>>

(***************************************************************************)
(* The two libraries checked on their own: a SampleBuffer (buffer.rs) and  *)
(* a GDBRemote connection (gdbremote.rs), as constructed.                  *)
(***************************************************************************)
\* SampleBuffer::new()
SampleBuffer_new ==
    /\ SampleBuffer_samples = <<>>
    /\ SampleBuffer_call = [fn |-> "new"]

\* GDBRemote::connect(address): the fields of the new GDBRemote, on a fresh stream
GDBRemote_connect ==
    /\ data_buffer = <<>>
    /\ last_rx_packet_timestamp = None
    /\ gdb_pc = "idle"
    /\ timeout_at = 0
    /\ Instant_now = 0
    /\ stream_rx = <<>>
    /\ stream_closed = FALSE
    /\ stream_tx = <<>>
    /\ response = [kind |-> "none"]
    /\ nframes = 0
    /\ nreads = 0
    /\ rx_timestamps = <<>>
    /\ response_rx = None

(***************************************************************************)
(* Specification of the sampler contract: any client, any backend.         *)
(***************************************************************************)
Init ==
    /\ debug_assertions \in BOOLEAN
    /\ backend = "None"
    /\ has_u32_us_time = TRUE
    /\ handle = FALSE
    /\ cpc = "idle"
    /\ start_result = "none"
    /\ wpc = "none"
    /\ status = "Initializing"
    /\ maybe_new_status = "None"
    /\ active_ids = <<>>
    /\ idx = 1
    /\ samples = <<>>
    /\ sampled_at = 0
    /\ pending = <<>>
    /\ buffer = <<>>
    /\ clock = 0
    /\ command_q = <<>>
    /\ notif_q = <<>>
    /\ sampled_q = <<>>
    /\ emitted = <<>>
    /\ nsent = 0
    /\ received = <<>>
    /\ ncmds = 0
    /\ nstarts = 0
    /\ ninfo = 0
    /\ wire = <<>>
    /\ nwire = 0
    /\ target_halted = FALSE
    /\ target_us = 0
    /\ rtt_server = "stopped"
    /\ ui_pc = "update"
    /\ show_connect_dialog = TRUE
    /\ show_add_address_dialog = FALSE
    /\ show_error_dialog = FALSE
    /\ buffer_auto_truncate = TRUE
    /\ sampling_method = "Simulated"
    /\ current_sampler = FALSE
    /\ signals = <<>>
    /\ scope_samples = <<>>
    /\ two_samplers = FALSE
    /\ SampleBuffer_new
    /\ GDBRemote_connect
    /\ wire_log = <<>>
    /\ Mem_response = "None"
    /\ channel_name = <<>>
    /\ packet_structure = [fn |-> "none"]
    /\ decode_bytes_call = [fn |-> "none"]
    /\ tick_backend = "None"
    /\ tick_pc = "none"
    /\ tick_status = "Initializing"
    /\ tick_maybe_new_status = "None"
    /\ last_sampled_at = 0
    /\ tick_now = 0
    /\ sleep_until = 0
    /\ tts_connected = FALSE
    /\ timestamping_enabled = FALSE
    /\ SystemTime_now = 0
    /\ tts_call = [fn |-> "none"]
    /\ telnet_buffer = <<>>
    /\ telnet_connection = <<>>
    /\ telnet_pc = "idle"
    /\ telnet_ret = [fn |-> "none"]
    /\ telnet_received = <<>>
    /\ telnet_lines = <<>>
    /\ rtt_packet_structure = [has_u32_us_time |-> FALSE, fields |-> <<>>]
    /\ rtt_pc = "none"
    /\ rtt_status = "Initializing"
    /\ rtt_maybe_new_status = "None"
    /\ rtt_command_rx = <<>>
    /\ rtt_ncommands = 0
    /\ rtt_channel = <<>>
    /\ rtt_written = 0
    /\ rtt_buffer = <<>>
    /\ rtt_sampled = <<>>
    /\ rtt_received = <<>>

\* the history tags of the Samples in a queue
SeqsOf(q) == [i \in 1..Len(q) |-> q[i].seq]

\* the steps of the worker thread (and of the closure that runs it)
WorkerLoop ==
    \/ thread_closure \/ notify_new_status \/ loop_Terminated \/ send_sample
    \/ Fake_Initializing \/ Fake_Sampling_command \/ Fake_Sampling_tick
    \/ Fake_Paused_command
    \/ Mem_connect \/ Mem_initial_ack \/ Mem_send_QStartNoAckMode
    \/ Mem_QStartNoAckMode_ack \/ Mem_QStartNoAckMode_ok \/ Mem_Initializing
    \/ Mem_Sampling_command \/ Mem_Sampling_no_command
    \/ Mem_request \/ Mem_read_response \/ Mem_match_response \/ Mem_Paused_command
    \/ RTT_connect_telnet \/ RTT_find_free_tcp_port \/ RTT_rtt_server_start
    \/ RTT_connect_stream \/ RTT_sync_halt \/ RTT_sync_drain \/ RTT_sync_resume
    \/ RTT_set_read_timeout \/ RTT_Initializing \/ RTT_try_recv \/ RTT_read
    \/ RTT_decode \/ RTT_send_sample \/ RTT_rate_measurement \/ RTT_Terminated

\* the Disconnected arms of command_rx.try_recv() / recv(): steps of a FakeSampler or
\* MemSampler worker whose handle was dropped while it polls for commands
WorkerOrphaned == Fake_command_channel_closed \/ Mem_command_channel_closed

Worker == WorkerLoop \/ WorkerOrphaned

\* the target and OpenOCD behind the RTT stream
Wire == Target_write_packet

\* the thread that owns the handle
Client ==
    \/ FakeSampler_start \/ MemSampler_start \/ RTTSampler_start
    \/ set_active_signals \/ pause \/ resume \/ stop \/ join
    \/ recv_sample \/ drop_handle

Next == Worker \/ Wire \/ Client

Spec == Init /\ [][Next]_vars
(***************************************************************************)
(* The sample buffers (buffer.rs).  A SampleBuffer is the sequence of the  *)
(* times of its points, in microseconds (push stores t as f64 * 1e-6, an   *)
(* order preserving conversion; the values play no role in the ordering).  *)
(* Indices are the code's, zero based: samples[i] is b[i + 1].             *)
(***************************************************************************)
\* keep_seconds: buffer_auto_truncate_at, scaled down from 10.0 s (main.rs:86)
KeepTime == 1

\* SampleBuffer::push
push(b, t) == Append(b, t)

\* the Option<usize> None

\* index_before_at: the while loop
RECURSIVE index_before_at_loop(_, _, _, _)
index_before_at_loop(b, t, lo, hi) ==
    IF lo + 1 < hi
      THEN LET i == (lo + hi) \div 2
           IN  IF b[i + 1] > t
                 THEN index_before_at_loop(b, t, lo, i)
                 ELSE index_before_at_loop(b, t, i, hi)
      ELSE lo

\* a faulty index_before_at: the final test against samples[a] is missing
index_before_at_AlwaysSome(b, t) ==
    LET a == index_before_at_loop(b, t, 0, Len(b))
    IN  IF a < Len(b) THEN a ELSE None

\* index_before_at(samples, t)
index_before_at(b, t) ==
    LET a == index_before_at_loop(b, t, 0, Len(b))
    IN  IF t < b[a + 1] THEN None
        ELSE IF a < Len(b) THEN a
        ELSE None

\* SampleBuffer::truncate reaches index_before_at(..).unwrap() on a None
truncate_panics(b, keep_seconds) ==
    /\ Len(b) # 0
    /\ b[1] < b[Len(b)] - keep_seconds
    /\ index_before_at(b, b[Len(b)] - keep_seconds) = None

\* a faulty truncate: drains one point more than index_before_at says
truncate_OneMore(b, keep_seconds) ==
    IF Len(b) = 0 THEN b
    ELSE LET truncate_timestamp == b[Len(b)] - keep_seconds
         IN  IF b[1] < truncate_timestamp
               THEN SubSeq(b, index_before_at(b, truncate_timestamp) + 3, Len(b))
               ELSE b

\* a faulty truncate: keeps the point index_before_at found
truncate_KeepsBoundary(b, keep_seconds) ==
    IF Len(b) = 0 THEN b
    ELSE LET truncate_timestamp == b[Len(b)] - keep_seconds
         IN  IF b[1] < truncate_timestamp
               THEN SubSeq(b, index_before_at(b, truncate_timestamp) + 1, Len(b))
               ELSE b

\* SampleBuffer::truncate(keep_seconds)
truncate(b, keep_seconds) ==
    IF Len(b) = 0 THEN b
    ELSE LET last_timestamp == b[Len(b)]
             truncate_timestamp == last_timestamp - keep_seconds
             trigger_timestamp == last_timestamp - keep_seconds
         IN  IF b[1] < trigger_timestamp
               THEN LET a == index_before_at(b, truncate_timestamp)
                    IN  SubSeq(b, a + 2, Len(b))
               ELSE b

(***************************************************************************)
(* The UI state machine (main.rs): OCDScope::update is one frame, which    *)
(* runs handle_messages and then the widgets; a frame handles at most one  *)
(* click.  The UI thread is the client of the sampler.                     *)
(***************************************************************************)
\* samplers connected in one run
MaxConnects == 2
\* the user adds a memory address only while the list holds fewer signals than this
MaxListedSignals == 1
\* commands (pause, resume, set_active_signals) the user sends to one sampler
MaxUiCommands == 1
\* the checkboxes the user clicks are those of the first signals of the list
MaxSignalClick == 1

\* OCDScope::any_dialog_visible
any_dialog_visible == show_add_address_dialog \/ show_connect_dialog \/ show_error_dialog

\* the toolbar shows "Connect..." (else Disconnect, Pause, Resume)
Toolbar_shows_Connect_Always == TRUE
Toolbar_shows_Connect == ~current_sampler

\* the samples of one Sample, pushed to the buffers of its signals
RECURSIVE push_sample(_, _, _)
push_sample(bufs, t, ids) ==
    IF ids = <<>> THEN bufs
    ELSE LET id == Head(ids)
             old == IF id \in DOMAIN bufs THEN bufs[id] ELSE <<>>
             new == [i \in (DOMAIN bufs) \cup {id} |->
                        IF i = id THEN push(old, t) ELSE bufs[i]]
         IN  push_sample(new, t, Tail(ids))

\* while let Ok((t, samples)) = sampler.sampled_channel().try_recv()
RECURSIVE push_all(_, _)
push_all(bufs, q) ==
    IF q = <<>> THEN bufs
    ELSE push_all(push_sample(bufs, Head(q).t, Head(q).ids), Tail(q))

\* the UI thread panics: the frame and the handle are gone
ui_panics ==
    /\ caller_panics
    /\ current_sampler' = FALSE

\* sampler.stop() on the sampler just taken out of current_sampler, up to the join
ui_stop(notifications_left) ==
    /\ current_sampler' = FALSE
    /\ IF ~WorkerRunning /\ debug_assertions /\ ~is_finished
         THEN /\ caller_panics
              /\ UNCHANGED command_q
         ELSE /\ command_tx_send(Stop)
              /\ cpc' = "joining"
              /\ notif_q' = notifications_left
              /\ UNCHANGED <<handle, sampled_q>>

\* OCDScope::handle_messages
handle_messages ==
    /\ ui_pc = "update" /\ cpc = "idle"
    /\ ui_pc' = "widgets"
    /\ LET notifications == IF current_sampler THEN notif_q ELSE <<>>
           sampler_terminated ==
               \E i \in 1..Len(notifications) : notifications[i] = NewStatus("Terminated")
           drained == push_all(scope_samples, sampled_q)
       IN  /\ show_error_dialog' =
                (show_error_dialog \/ \E i \in 1..Len(notifications) : notifications[i] = Error)
           /\ IF sampler_terminated
                THEN /\ ui_stop(<<>>)
                     /\ UNCHANGED <<scope_samples, received>>
                ELSE IF current_sampler
                  THEN /\ received' = received \o SeqsOf(sampled_q)
                       /\ IF buffer_auto_truncate
                               /\ \E id \in DOMAIN drained : truncate_panics(drained[id], KeepTime)
                            THEN /\ ui_panics
                                 /\ UNCHANGED <<scope_samples, command_q>>
                            ELSE /\ scope_samples' =
                                      IF buffer_auto_truncate
                                        THEN [id \in DOMAIN drained |->
                                                  truncate(drained[id], KeepTime)]
                                        ELSE drained
                                 /\ notif_q' = <<>>
                                 /\ sampled_q' = <<>>
                                 /\ UNCHANGED <<command_q, cpc, handle, current_sampler>>
                  ELSE UNCHANGED <<scope_samples, received, chanVars, cpc, handle,
                                   current_sampler>>
    /\ UNCHANGED <<logVars, workerVars, wireVars, debug_assertions, libVars, backend,
                   has_u32_us_time, start_result, ncmds, nstarts, show_connect_dialog,
                   show_add_address_dialog, buffer_auto_truncate, sampling_method, signals,
                   two_samplers>>

\* what a widget handler leaves alone when it touches neither sampler nor worker
widget_frame ==
    /\ ui_pc = "widgets" /\ cpc = "idle"
    /\ ui_pc' = "update"

\* a frame in which no widget is clicked
no_click ==
    /\ widget_frame
    /\ UNCHANGED <<logVars, workerVars, chanVars, wireVars, debug_assertions, libVars,
                   backend, has_u32_us_time, handle, cpc, start_result, received, ncmds,
                   nstarts, show_connect_dialog, show_add_address_dialog, show_error_dialog,
                   buffer_auto_truncate, sampling_method, current_sampler, signals,
                   scope_samples, two_samplers>>

\* toolbar: "Connect..." clicked
toolbar_Connect ==
    /\ widget_frame
    /\ ~any_dialog_visible /\ Toolbar_shows_Connect
    /\ show_connect_dialog' = TRUE
    /\ UNCHANGED <<logVars, workerVars, chanVars, wireVars, debug_assertions, libVars,
                   backend, has_u32_us_time, handle, cpc, start_result, received, ncmds,
                   nstarts, show_add_address_dialog, show_error_dialog, buffer_auto_truncate,
                   sampling_method, current_sampler, signals, scope_samples, two_samplers>>

\* toolbar: "Disconnect" clicked
toolbar_Disconnect ==
    /\ widget_frame
    /\ ~any_dialog_visible /\ ~Toolbar_shows_Connect /\ current_sampler
    /\ ui_stop(notif_q)
    /\ UNCHANGED <<logVars, workerVars, wireVars, debug_assertions, libVars, backend,
                   has_u32_us_time, start_result, received, ncmds, nstarts,
                   show_connect_dialog, show_add_address_dialog, show_error_dialog,
                   buffer_auto_truncate, sampling_method, signals, scope_samples,
                   two_samplers>>

\* a command the UI sends through the handle (pause, resume, set_active_signals)
ui_command(c) ==
    /\ ncmds < MaxUiCommands
    /\ ncmds' = ncmds + 1
    /\ IF backend = "RTT" /\ c.op = "SetActiveSignals"
         THEN UNCHANGED <<command_q, cpc, handle, notif_q, sampled_q, current_sampler>>
         ELSE IF backend = "Fake" /\ ~WorkerRunning
           THEN /\ ui_panics
                /\ UNCHANGED command_q
           ELSE /\ command_tx_send(c)
                /\ UNCHANGED <<cpc, handle, notif_q, sampled_q, current_sampler>>

\* toolbar: "Pause" or "Resume" clicked
toolbar_Pause_Resume ==
    /\ widget_frame
    /\ ~any_dialog_visible /\ ~Toolbar_shows_Connect /\ current_sampler
    /\ \E c \in {Pause, Resume} : ui_command(c)
    /\ UNCHANGED <<logVars, workerVars, wireVars, debug_assertions, libVars, backend,
                   has_u32_us_time, start_result, received, nstarts, show_connect_dialog,
                   show_add_address_dialog, show_error_dialog, buffer_auto_truncate,
                   sampling_method, signals, scope_samples, two_samplers>>

\* the ids of the enabled signals, in list order
RECURSIVE enabled_ids(_)
enabled_ids(sigs) ==
    IF sigs = <<>> THEN <<>>
    ELSE (IF Head(sigs).enabled THEN <<Head(sigs).id>> ELSE <<>>) \o enabled_ids(Tail(sigs))

\* SignalConfig::new(id, name)
SignalConfig(id) == [id |-> id, enabled |-> FALSE]

\* sidebar: the checkbox of one signal changed
sidebar_signal_checkbox ==
    /\ widget_frame
    /\ \E i \in 1..Len(signals) :
         LET toggled == [signals EXCEPT ![i].enabled = ~signals[i].enabled]
         IN  /\ i <= MaxSignalClick
             /\ signals' = toggled
             /\ IF current_sampler
                  THEN ui_command(SetActiveSignals(enabled_ids(toggled)))
                  ELSE UNCHANGED <<ncmds, command_q, cpc, handle, notif_q, sampled_q,
                                   current_sampler>>
    /\ UNCHANGED <<logVars, workerVars, wireVars, debug_assertions, libVars, backend,
                   has_u32_us_time, start_result, received, nstarts, show_connect_dialog,
                   show_add_address_dialog, show_error_dialog, buffer_auto_truncate,
                   sampling_method, scope_samples, two_samplers>>

\* sidebar: the "Buffer auto truncate" checkbox changed
sidebar_auto_truncate_checkbox ==
    /\ widget_frame
    /\ buffer_auto_truncate' = ~buffer_auto_truncate
    /\ UNCHANGED <<logVars, workerVars, chanVars, wireVars, debug_assertions, libVars,
                   backend, has_u32_us_time, handle, cpc, start_result, received, ncmds,
                   nstarts, show_connect_dialog, show_add_address_dialog, show_error_dialog,
                   sampling_method, current_sampler, signals, scope_samples, two_samplers>>

\* sidebar: "Add memory address" clicked
sidebar_Add_memory_address ==
    /\ widget_frame
    /\ sampling_method = "MemorySamping"
    /\ Len(signals) < MaxListedSignals
    /\ show_add_address_dialog' = TRUE
    /\ UNCHANGED <<logVars, workerVars, chanVars, wireVars, debug_assertions, libVars,
                   backend, has_u32_us_time, handle, cpc, start_result, received, ncmds,
                   nstarts, show_connect_dialog, show_error_dialog, buffer_auto_truncate,
                   sampling_method, current_sampler, signals, scope_samples, two_samplers>>

\* the addresses a user types into the dialog
TypedAddresses == {3}

\* "Add memory address" dialog: "Cancel", or "Add" with a string that is or is not hex
add_address_dialog ==
    /\ widget_frame
    /\ show_add_address_dialog
    /\ \/ /\ show_add_address_dialog' = FALSE
          /\ UNCHANGED signals
       \/ \E address \in TypedAddresses :
            /\ Len(signals) < MaxListedSignals
            /\ signals' = Append(signals, SignalConfig(address))
            /\ show_add_address_dialog' = FALSE
       \/ UNCHANGED <<signals, show_add_address_dialog>>
    /\ UNCHANGED <<logVars, workerVars, chanVars, wireVars, debug_assertions, libVars,
                   backend, has_u32_us_time, handle, cpc, start_result, received, ncmds,
                   nstarts, show_connect_dialog, show_error_dialog, buffer_auto_truncate,
                   sampling_method, current_sampler, scope_samples, two_samplers>>

\* SamplingMethod
SamplingMethod == {"MemorySamping", "RTT", "Simulated"}

\* connect dialog: a radio button selected, or "Cancel" clicked
connect_dialog_select_or_Cancel ==
    /\ widget_frame
    /\ show_connect_dialog
    /\ \/ /\ sampling_method' \in SamplingMethod \ {sampling_method}
          /\ UNCHANGED show_connect_dialog
       \/ /\ show_connect_dialog' = FALSE
          /\ UNCHANGED sampling_method
    /\ UNCHANGED <<logVars, workerVars, chanVars, wireVars, debug_assertions, libVars,
                   backend, has_u32_us_time, handle, cpc, start_result, received, ncmds,
                   nstarts, show_add_address_dialog, show_error_dialog, buffer_auto_truncate,
                   current_sampler, signals, scope_samples, two_samplers>>

\* the symbols of an ELF file that pass the filter of MemSampler::start
ElfSymbols == <<1, 0>>

\* Sampler::available_signals of a sampler that was started
available_signals(b, elf) ==
    IF b = "Fake" THEN [i \in 1..FakeSignalCount |-> i - 1]
    ELSE IF b = "Mem" THEN (IF elf = "ok" THEN ElfSymbols ELSE <<>>)
    ELSE RTT_signal_ids

\* the rest of the "Connect" handler once start() returned a sampler
connected(b, entry, elf) ==
    LET ids == available_signals(b, elf)
        first_enabled == [i \in 1..Len(ids) |-> [id |-> ids[i], enabled |-> i = 1]]
    IN  /\ spawned(b, entry,
                   IF ids # <<>> /\ b # "RTT" THEN <<SetActiveSignals(<<ids[1]>>)>> ELSE <<>>)
        /\ handle' = TRUE
        /\ start_result' = "ok"
        /\ scope_samples' = <<>>
        /\ signals' = first_enabled
        /\ current_sampler' = TRUE
        /\ show_connect_dialog' = FALSE
        /\ UNCHANGED cpc

\* the "Connect" handler panics (expect / unwrap) before a sampler is stored
connect_panics ==
    /\ cpc' = "panicked"
    /\ UNCHANGED <<scope_samples, signals, current_sampler, show_connect_dialog>>

\* connect dialog: "Connect" clicked
connect_dialog_Connect ==
    /\ widget_frame
    /\ show_connect_dialog
    /\ nstarts < MaxConnects
    /\ nstarts' = nstarts + 1
    /\ IF current_sampler
         THEN \* a second sampler is started while the first exists
              /\ two_samplers' = TRUE
              /\ UNCHANGED <<workerVars, chanVars, wireVars, logVars, backend,
                             has_u32_us_time, handle, cpc, start_result, received, ncmds,
                             scope_samples, signals, current_sampler, show_connect_dialog>>
         ELSE
           /\ UNCHANGED two_samplers
           /\ \/ \* sample_rate / rtt_polling_interval does not parse: expect panics
                 /\ connect_panics
                 /\ UNCHANGED <<workerVars, chanVars, wireVars, logVars, backend,
                                has_u32_us_time, handle, start_result, received, ncmds>>
              \/ /\ sampling_method = "Simulated"
                 /\ connected("Fake", "loop", "none")
                 /\ UNCHANGED <<has_u32_us_time, target_us>>
              \/ /\ sampling_method = "MemorySamping"
                 /\ UNCHANGED <<has_u32_us_time, target_us>>
                 /\ \E address_ok \in BOOLEAN, elf \in {"none", "ok", "bad"} :
                      IF ~address_ok
                        THEN not_spawned("Mem") /\ connect_panics
                        ELSE IF elf = "bad"
                          THEN /\ spawned("Mem", "m_connect", <<>>)
                               /\ handle' = FALSE
                               /\ start_result' = "panic"
                               /\ connect_panics
                          ELSE connected("Mem", "m_connect", elf)
              \/ /\ sampling_method = "RTT"
                 /\ \E failed \in RTTStartSteps \cup {"none"} :
                      IF failed # "none"
                        THEN /\ not_spawned("RTT") /\ connect_panics
                             /\ UNCHANGED <<has_u32_us_time, target_us>>
                        ELSE /\ connected("RTT", "r_connect", "none")
                             /\ has_u32_us_time' \in BOOLEAN
                             /\ target_us' \in TargetTimes
    /\ UNCHANGED <<debug_assertions, libVars, show_add_address_dialog, show_error_dialog,
                   buffer_auto_truncate, sampling_method>>

\* error dialog: "Close" clicked
error_dialog_Close ==
    /\ widget_frame
    /\ show_error_dialog
    /\ show_error_dialog' = FALSE
    /\ UNCHANGED <<logVars, workerVars, chanVars, wireVars, debug_assertions, libVars,
                   backend, has_u32_us_time, handle, cpc, start_result, received, ncmds,
                   nstarts, show_connect_dialog, show_add_address_dialog,
                   buffer_auto_truncate, sampling_method, current_sampler, signals,
                   scope_samples, two_samplers>>

\* the UI thread
UI ==
    \/ handle_messages \/ join \/ no_click
    \/ toolbar_Connect \/ toolbar_Disconnect \/ toolbar_Pause_Resume
    \/ sidebar_signal_checkbox \/ sidebar_auto_truncate_checkbox
    \/ sidebar_Add_memory_address \/ add_address_dialog
    \/ connect_dialog_select_or_Cancel \/ connect_dialog_Connect
    \/ error_dialog_Close

\* the UI drops a handle only after joining its worker or while the worker is not
\* polling for commands, so the Disconnected arms are no steps of the application
NextUI == WorkerLoop \/ Wire \/ UI

(***************************************************************************)
(* Specification of the application: the UI drives the sampler.            *)
(***************************************************************************)
SpecUI == Init /\ [][NextUI]_vars

(***************************************************************************)
(* Properties of the sampler contract.                                     *)
(***************************************************************************)
RECURSIVE StatusesOf(_)
\* the statuses of the NewStatus notifications of a log, in order
StatusesOf(log) ==
    IF log = <<>> THEN <<>>
    ELSE IF Head(log).kind = "NewStatus"
           THEN <<Head(log).status>> \o StatusesOf(Tail(log))
           ELSE StatusesOf(Tail(log))

\* the worker starts in Initializing, then announces these
StatusHistory == <<"Initializing">> \o StatusesOf(emitted)

\* the transitions of the state machine of section 4.5
LifecycleTransitions ==
    {<<"Initializing", "Sampling">>, <<"Sampling", "Paused">>, <<"Paused", "Sampling">>,
     <<"Sampling", "Terminated">>, <<"Paused", "Terminated">>}

\* the worker has sent NewStatus(s)
HasSent(s) == \E i \in 1..Len(emitted) : emitted[i] = NewStatus(s)

\* C1 as stated: the NewStatus notifications of a worker follow only the transitions
\* Initializing->Sampling, Sampling->Paused, Paused->Sampling, Sampling->Terminated and
\* Paused->Terminated, so Terminated is never announced before Sampling was.
C1_OnlyLifecycleTransitions ==
    /\ \A i \in 1..(Len(StatusHistory) - 1) :
         <<StatusHistory[i], StatusHistory[i + 1]>> \in LifecycleTransitions
    /\ HasSent("Terminated") => HasSent("Sampling")

\* emitted[i] is a NewStatus(Terminated) that reports an error: the closure sent
\* Error right before it
ReportsError(i) ==
    /\ emitted[i] = NewStatus("Terminated")
    /\ i > 1 /\ emitted[i - 1] = Error

\* the position in `emitted` of the k-th NewStatus notification
RECURSIVE PositionOfStatus(_, _)
PositionOfStatus(k, from) ==
    IF emitted[from].kind = "NewStatus"
      THEN IF k = 1 THEN from ELSE PositionOfStatus(k - 1, from + 1)
      ELSE PositionOfStatus(k, from + 1)

\* C1 amended: the NewStatus notifications follow the five transitions of section 4.5,
\* and besides them only a NewStatus(Terminated) that reports an error (sent right
\* after an Error notification) may follow Initializing (the worker failed before
\* it announced Sampling) or a first NewStatus(Terminated) (RTT: rtt server stop failed).
C1_LifecycleOrErrorReport ==
    \A k \in 1..Len(StatusesOf(emitted)) :
        \/ <<StatusHistory[k], StatusHistory[k + 1]>> \in LifecycleTransitions
        \/ /\ StatusHistory[k] \in {"Initializing", "Terminated"}
           /\ ReportsError(PositionOfStatus(k, 1))

\* a worker that went through Sampling, Paused, Sampling again and Terminated
C1_Witness == StatusesOf(emitted) = <<"Sampling", "Paused", "Sampling", "Terminated">>

\* C3: a worker whose sampler_thread ended with an error has sent Error and then
\* NewStatus(Terminated) as its last two notifications.
C3_ErrorThenTerminated ==
    wpc = "done_err" =>
        /\ Len(emitted) >= 2
        /\ emitted[Len(emitted) - 1] = Error
        /\ emitted[Len(emitted)] = NewStatus("Terminated")

\* an RTT worker that failed while Sampling, after its Info notifications
C3_Witness ==
    /\ wpc = "done_err" /\ backend = "RTT"
    /\ StatusesOf(emitted) = <<"Sampling", "Terminated">>
    /\ Len(emitted) >= 5

\* C4: no worker thread panics.
C4_NoWorkerPanic == wpc # "panicked"

\* C5: once NewStatus(Terminated) is sent, the worker is on its way out of
\* sampler_thread (or has left it), and no step sends a Sample, takes a command off
\* the command channel or sends NewStatus(Sampling) or NewStatus(Paused), for as long
\* as the sampler exists (until it is joined or another one is started).
C5_OnExitPath ==
    HasSent("Terminated") =>
        \/ wpc \in {"wrapper_ok", "wrapper_err", "done", "done_err"}
        \/ wpc = "loop" /\ status = "Terminated"

C5_TerminatedIsAbsorbing ==
    /\ []C5_OnExitPath
    /\ [][(HasSent("Terminated") /\ nstarts' = nstarts /\ wpc' # "none") =>
            /\ nsent' = nsent
            /\ \/ Len(command_q') >= Len(command_q)
               \/ command_q' = <<>> /\ ~WorkerRunning'

            /\ \A i \in (Len(emitted) + 1)..Len(emitted') :
                 emitted'[i] \notin {NewStatus("Sampling"), NewStatus("Paused")}]_vars

\* an RTT worker that has announced Terminated and exited while the client is
\* joining it, having sent a Sample before
C5_Witness == HasSent("Terminated") /\ wpc = "done" /\ backend = "RTT" /\ nsent > 0

\* C6: a Sample is sent (or being sent) only after NewStatus(Sampling) was sent, and
\* never while the worker's status is Initializing.
C6_SamplingAnnouncedFirst ==
    (nsent > 0 \/ pending # <<>>) => (HasSent("Sampling") /\ status # "Initializing")

\* every backend has sent a Sample
C6_Witness == nsent > 0 /\ backend = "RTT" /\ HasSent("Sampling")

\* C7: the sample channel never holds more than its capacity, and what the consumer
\* has received followed by what the channel holds is exactly what was sent, in order.
C7_BoundedFifo ==
    /\ Len(sampled_q) <= SampleChannelCap
    /\ handle => received \o SeqsOf(sampled_q) = [i \in 1..nsent |-> i]

\* the channel is full, the worker is blocked in send, the consumer has received
C7_Witness ==
    /\ Len(sampled_q) = SampleChannelCap
    /\ wpc \in {"send", "r_send"} /\ handle
    /\ received # <<>>

\* C8: when construction of a sampler failed, no worker thread of it exists.
C8_NoWorkerAfterFailedStart == start_result \in {"err", "panic"} => wpc = "none"

(***************************************************************************)
(* Properties of the application.                                          *)
(***************************************************************************)
\* C9: the UI holds at most one sampler and at most one worker thread exists: whenever
\* the connect dialog is open (the only place a sampler is started) current_sampler
\* is None and no worker thread exists, so the connect handler never runs while a
\* sampler exists and its debug_assert!(current_sampler.is_none()) holds.
C9_AtMostOneSampler ==
    /\ ~two_samplers
    /\ show_connect_dialog => ~current_sampler
    /\ (show_connect_dialog /\ cpc = "idle") => (wpc = "none" /\ ~handle)
    /\ current_sampler => (handle /\ wpc # "none")

\* a second sampler was connected after the first was disconnected, and samples
C9_Witness == nstarts = 2 /\ current_sampler /\ status = "Sampling" /\ HasSent("Sampling")

\* C10: every per-signal sample buffer of the UI is sorted by time.
C10_BuffersSorted ==
    \A id \in DOMAIN scope_samples :
        \A i \in 1..(Len(scope_samples[id]) - 1) :
            scope_samples[id][i] <= scope_samples[id][i + 1]

\* fair scheduling of the worker thread and of the thread that called stop()
FairSpec == Spec /\ WF_vars(Worker) /\ WF_vars(join)

\* C2: after stop() is called, the worker terminates and stop() returns.
C2_StopReturns ==
    (cpc = "joining" /\ status \in {"Sampling", "Paused"}) ~> (cpc = "idle" /\ wpc = "none")

(***************************************************************************)
(* A SampleBuffer on its own (buffer.rs): any caller, any sequence of      *)
(* push, plot_points, truncate and index_before_at.  An f64 time is an     *)
(* integer, or one of the two infinities; a panic of a call is recorded in *)
(* the call.                                                               *)
(***************************************************************************)
\* points one buffer holds
MaxBufferLen == 3
\* finite times pushed are 0..MaxTime
MaxTime == 2
\* values pushed are 1..MaxValue
MaxValue == 2
\* the scales a caller passes are 1..MaxScale
MaxScale == 2

\* f64::INFINITY: above every finite time of the model
INFINITY == 1000
\* f64::NEG_INFINITY (-f64::INFINITY)
NEG_INFINITY == -INFINITY

\* the times a caller asks about: below the first, above the last, and the infinities
QueryTimes == {NEG_INFINITY, INFINITY} \cup (-1..(MaxTime + 1))

\* the variables of the rest of the program
appVars == <<workerVars, chanVars, wireVars, debug_assertions, backend, has_u32_us_time,
             handle, cpc, start_result, received, ncmds, nstarts, scopeVars, logVars,
             parseVars, unitVars>>

\* the x of the points: the slice index_before_at searches
xs(points) == [i \in 1..Len(points) |-> points[i].x]

\* index_before_at panics: debug_assert_ne!(samples.len(), 0), or samples[a] in a release build
index_before_at_panics(b) == Len(b) = 0

\* SampleBuffer::plot_points: the slice selected by the match on (from_i, to_i)
plot_points_slice(points, from_t, to_t) ==
    LET from_i == index_before_at(xs(points), from_t)
        to_i == index_before_at(xs(points), to_t)
        len == Len(points)
    IN  IF from_i # None /\ to_i # None /\ to_i >= len THEN SubSeq(points, from_i + 1, len)
        ELSE IF from_i # None /\ to_i # None /\ to_i < len THEN SubSeq(points, from_i + 1, to_i)
        ELSE IF from_i = None /\ to_i # None /\ to_i < len THEN SubSeq(points, 1, to_i)
        ELSE points

\* SampleBuffer::plot_points panics: in index_before_at, in the slicing samples[a..b] with
\* a > b, or in the debug_assert on the last point of the slice
plot_points_panics(points, from_t, to_t) ==
    \/ index_before_at_panics(xs(points))
    \/ LET from_i == index_before_at(xs(points), from_t)
           to_i == index_before_at(xs(points), to_t)
           slice == plot_points_slice(points, from_t, to_t)
       IN  /\ from_i # None /\ to_i # None
           /\ \/ to_i < Len(points) /\ from_i > to_i
              \/ debug_assertions /\ Len(slice) > 0 /\ slice[Len(slice)].x > to_t

\* SampleBuffer::plot_points(from_t, to_t, scale): the points returned
plot_points(points, from_t, to_t, scale) ==
    LET slice == plot_points_slice(points, from_t, to_t)
    IN  [i \in 1..Len(slice) |-> [x |-> slice[i].x, y |-> slice[i].y * scale]]

\* buffer.push(t, value), any t: the buffer does not check the order
SampleBuffer_push ==
    /\ Len(SampleBuffer_samples) < MaxBufferLen
    /\ \E t \in 0..MaxTime, value \in 1..MaxValue :
        /\ SampleBuffer_samples' = Append(SampleBuffer_samples, [x |-> t, y |-> value])
        /\ SampleBuffer_call' = [fn |-> "push", t |-> t, value |-> value]
    /\ UNCHANGED <<appVars, gdbVars>>

\* index_before_at(buffer.samples(), t)
SampleBuffer_index_before_at ==
    /\ \E t \in QueryTimes :
        SampleBuffer_call' =
            IF index_before_at_panics(xs(SampleBuffer_samples))
              THEN [fn |-> "index_before_at", t |-> t, panics |-> TRUE]
              ELSE [fn |-> "index_before_at", t |-> t, panics |-> FALSE,
                    ret |-> index_before_at(xs(SampleBuffer_samples), t)]
    /\ UNCHANGED <<SampleBuffer_samples, appVars, gdbVars>>

\* buffer.plot_points(from_t, to_t, scale), from_t <= to_t as the plot passes them
\* (x_min - margin / 2.0 and x_max + margin / 2.0, main.rs:462-472)
SampleBuffer_plot_points ==
    /\ \E from_t \in QueryTimes, to_t \in QueryTimes, scale \in 1..MaxScale :
        /\ from_t <= to_t
        /\ SampleBuffer_call' =
            IF plot_points_panics(SampleBuffer_samples, from_t, to_t)
              THEN [fn |-> "plot_points", from_t |-> from_t, to_t |-> to_t, scale |-> scale,
                    panics |-> TRUE]
              ELSE [fn |-> "plot_points", from_t |-> from_t, to_t |-> to_t, scale |-> scale,
                    panics |-> FALSE,
                    ret |-> plot_points(SampleBuffer_samples, from_t, to_t, scale)]
    /\ UNCHANGED <<SampleBuffer_samples, appVars, gdbVars>>

\* buffer.truncate(keep_seconds)
SampleBuffer_truncate ==
    /\ \E keep_seconds \in 0..(MaxTime + 1) :
        LET before == SampleBuffer_samples
            kept == Len(truncate(xs(before), keep_seconds))
        IN  IF truncate_panics(xs(before), keep_seconds)
              THEN /\ SampleBuffer_call' = [fn |-> "truncate", keep_seconds |-> keep_seconds,
                                            before |-> before, panics |-> TRUE]
                   /\ UNCHANGED SampleBuffer_samples
              ELSE /\ SampleBuffer_call' = [fn |-> "truncate", keep_seconds |-> keep_seconds,
                                            before |-> before, panics |-> FALSE]
                   /\ SampleBuffer_samples' = SubSeq(before, Len(before) - kept + 1, Len(before))
    /\ UNCHANGED <<appVars, gdbVars>>

NextBuffer ==
    \/ SampleBuffer_push
    \/ SampleBuffer_index_before_at
    \/ SampleBuffer_plot_points
    \/ SampleBuffer_truncate

SpecBuffer == Init /\ [][NextBuffer]_vars

\* a sequence of points is sorted by time
TimeSorted(points) == \A i \in 1..(Len(points) - 1) : points[i].x <= points[i + 1].x

\* the last call on the buffer was fn, and it returned
Returned(fn) == SampleBuffer_call.fn = fn /\ ~SampleBuffer_call.panics

\* the points of a sequence whose time lies in [from_t, to_t]
RECURSIVE PointsWithin(_, _, _)
PointsWithin(points, from_t, to_t) ==
    IF points = <<>> THEN <<>>
    ELSE IF from_t <= Head(points).x /\ Head(points).x <= to_t
      THEN <<Head(points)>> \o PointsWithin(Tail(points), from_t, to_t)
      ELSE PointsWithin(Tail(points), from_t, to_t)

\* a sequence of points with every y multiplied by scale
Scaled(points, scale) ==
    [i \in 1..Len(points) |-> [x |-> points[i].x, y |-> points[i].y * scale]]

\* C11: on a non-empty time-sorted buffer index_before_at(B, t) returns None only if
\* t < B[0].t, and otherwise Some(k) with k the largest index such that B[k].t <= t
\* (k + 1 = len(B) or t < B[k + 1].t); for t >= B[last].t it returns the last index.
C11_IndexBeforeAt ==
    (Returned("index_before_at") /\ TimeSorted(SampleBuffer_samples)) =>
        LET B == xs(SampleBuffer_samples)
            t == SampleBuffer_call.t
            k == SampleBuffer_call.ret
        IN  /\ k = None => t < B[1]
            /\ k # None =>
                /\ k \in 0..(Len(B) - 1)
                /\ B[k + 1] <= t
                /\ k + 1 = Len(B) \/ t < B[k + 2]
            /\ t >= B[Len(B)] => k = Len(B) - 1

\* index_before_at returned the middle index of a sorted buffer of three points, for a
\* time strictly below the last point
C11_Witness ==
    /\ Returned("index_before_at") /\ TimeSorted(SampleBuffer_samples)
    /\ Len(SampleBuffer_samples) = 3
    /\ SampleBuffer_call.ret = 1
    /\ SampleBuffer_call.t < SampleBuffer_samples[3].x

\* C12: plot_points(-inf, +inf, s) returns all the points of the buffer, in order, with
\* unchanged t and each y multiplied by s.
C12_PlotPointsWhole ==
    (/\ SampleBuffer_call.fn = "plot_points"
     /\ SampleBuffer_call.from_t = NEG_INFINITY /\ SampleBuffer_call.to_t = INFINITY
     /\ SampleBuffer_samples # <<>>) =>
        /\ ~SampleBuffer_call.panics
        /\ SampleBuffer_call.ret = Scaled(SampleBuffer_samples, SampleBuffer_call.scale)

\* C13: on a non-empty sorted buffer, for from_t <= to_t, plot_points(from_t, to_t, scale)
\* returns exactly the buffered points whose t lies in [from_t, to_t].
C13_PlotPointsExactRange ==
    (/\ SampleBuffer_call.fn = "plot_points"
     /\ SampleBuffer_call.from_t <= SampleBuffer_call.to_t
     /\ SampleBuffer_samples # <<>> /\ TimeSorted(SampleBuffer_samples)) =>
        /\ ~SampleBuffer_call.panics
        /\ SampleBuffer_call.ret =
              Scaled(PointsWithin(SampleBuffer_samples, SampleBuffer_call.from_t,
                                  SampleBuffer_call.to_t),
                     SampleBuffer_call.scale)

\* C14: plot_points returns an empty sequence, without failing, when the buffer is empty
\* and when no buffered sample has its t in [from_t, to_t].
C14_PlotPointsEmpty ==
    (/\ SampleBuffer_call.fn = "plot_points"
     /\ TimeSorted(SampleBuffer_samples)
     /\ PointsWithin(SampleBuffer_samples, SampleBuffer_call.from_t,
                     SampleBuffer_call.to_t) = <<>>) =>
        /\ ~SampleBuffer_call.panics
        /\ SampleBuffer_call.ret = <<>>

\* C15: truncate(k) on a sorted buffer whose last time is last_t does not fail, every
\* remaining point has t >= last_t - k, the remaining points are a suffix of the previous
\* contents, for k > 0 the last point is retained, and an empty buffer stays empty.
C15_TruncateKeepsRecent ==
    (SampleBuffer_call.fn = "truncate" /\ TimeSorted(SampleBuffer_call.before)) =>
        LET before == SampleBuffer_call.before
            after == SampleBuffer_samples
            k == SampleBuffer_call.keep_seconds
        IN  /\ ~SampleBuffer_call.panics
            /\ before = <<>> => after = <<>>
            /\ before # <<>> =>
                /\ \A i \in 1..Len(after) : after[i].x >= before[Len(before)].x - k
                /\ Len(after) <= Len(before)
                /\ after = SubSeq(before, Len(before) - Len(after) + 1, Len(before))
                /\ k > 0 => (after # <<>> /\ after[Len(after)] = before[Len(before)])

\* truncate with k > 0 removed points of a sorted buffer of three, and kept some
C15_Witness ==
    /\ Returned("truncate") /\ TimeSorted(SampleBuffer_call.before)
    /\ Len(SampleBuffer_call.before) = 3
    /\ SampleBuffer_call.keep_seconds > 0
    /\ Len(SampleBuffer_samples) \in {1, 2}

\* C16 as stated: truncate(keep_seconds) removes exactly the points whose
\* t < last_t - keep_seconds; every point with t >= last_t - keep_seconds stays.
C16_TruncateRemovesOlder ==
    (Returned("truncate") /\ TimeSorted(SampleBuffer_call.before)
        /\ SampleBuffer_call.before # <<>>) =>
        LET before == SampleBuffer_call.before
            truncate_timestamp == before[Len(before)].x - SampleBuffer_call.keep_seconds
        IN  SampleBuffer_samples = PointsWithin(before, truncate_timestamp, INFINITY)

\* C16, amended: when the first point is older than last_t - keep_seconds, truncate removes
\* exactly the points whose t <= last_t - keep_seconds (a point at the boundary goes too);
\* otherwise it removes nothing.
C16_TruncateRemovesUpToBoundary ==
    (Returned("truncate") /\ TimeSorted(SampleBuffer_call.before)
        /\ SampleBuffer_call.before # <<>>) =>
        LET before == SampleBuffer_call.before
            truncate_timestamp == before[Len(before)].x - SampleBuffer_call.keep_seconds
        IN  SampleBuffer_samples =
              IF before[1].x < truncate_timestamp
                THEN PointsWithin(before, truncate_timestamp + 1, INFINITY)
                ELSE before

\* truncate ran on a sorted buffer that held a point exactly at last_t - keep_seconds and
\* an older one
C16_Witness ==
    /\ Returned("truncate") /\ TimeSorted(SampleBuffer_call.before)
    /\ SampleBuffer_call.before # <<>>
    /\ LET before == SampleBuffer_call.before
           truncate_timestamp == before[Len(before)].x - SampleBuffer_call.keep_seconds
       IN  /\ before[1].x < truncate_timestamp
           /\ \E i \in 1..Len(before) : before[i].x = truncate_timestamp

(***************************************************************************)
(* The GDB remote protocol client (gdbremote.rs): one GDBRemote and the    *)
(* server at the other end of its TCP stream.  A byte is its value 0..255, *)
(* a string the sequence of its bytes.                                     *)
(***************************************************************************)
\* bytes of one packet's contents
MaxPayload == 3
\* replies the server writes in one run
MaxFrames == 1
\* read_response calls in one run
MaxReads == 2
\* Instant::now() runs from 0 to MaxInstant
MaxInstant == 2

\* DEFAULT_TIMEOUT, the unit of time of the model
DEFAULT_TIMEOUT == 1

\* the ASCII codes of the characters the model uses
Ord == ("$" :> 36) @@ ("#" :> 35) @@ ("+" :> 43) @@ ("0" :> 48) @@ ("4" :> 52)
       @@ ("5" :> 53) @@ ("B" :> 66) @@ ("C" :> 67) @@ ("b" :> 98) @@ ("q" :> 113)
       @@ ("O" :> 79) @@ ("f" :> 102)

\* a string literal as bytes (str::as_bytes)
as_bytes(chars) == [i \in 1..Len(chars) |-> Ord[chars[i]]]

\* a faulty checksum: the bytes are added without wrapping at 256
RECURSIVE fold_add_NoWrap(_, _)
fold_add_NoWrap(c, bytes) ==
    IF bytes = <<>> THEN c ELSE fold_add_NoWrap(c + Head(bytes), Tail(bytes))

\* bytes.iter().fold(0x00, |c, &b| c.wrapping_add(b)) on u8
RECURSIVE fold_wrapping_add(_, _)
fold_wrapping_add(c, bytes) ==
    IF bytes = <<>> THEN c ELSE fold_wrapping_add((c + Head(bytes)) % 256, Tail(bytes))

\* a faulty hex digit: upper case
LowerHexDigit_Upper(n) == IF n < 10 THEN 48 + n ELSE 65 + (n - 10)

\* one digit of format!("{:02x}", ..): '0'..'9', 'a'..'f'
LowerHexDigit(n) == IF n < 10 THEN 48 + n ELSE 97 + (n - 10)

\* format!("{:02x}", checksum).as_bytes()
format_02x(checksum) == <<LowerHexDigit(checksum \div 16), LowerHexDigit(checksum % 16)>>

\* build_gdb_packet(data)
build_gdb_packet(data) ==
    <<Ord["$"]>> \o data \o <<Ord["#"]>> \o format_02x(fold_wrapping_add(0, data))

\* char::to_digit(16) of a byte: its value, or None
to_digit_16(b) ==
    IF b \in 48..57 THEN b - 48
    ELSE IF b \in 97..102 THEN b - 97 + 10
    ELSE IF b \in 65..70 THEN b - 65 + 10
    ELSE None

\* u8::from_str_radix(src, 16) of a two byte string: an optional '+' sign, then one or
\* more hex digits of either case; None for Err
from_str_radix_16(src) ==
    LET digits == IF src[1] = Ord["+"] THEN Tail(src) ELSE src
    IN  IF \E i \in 1..Len(digits) : to_digit_16(digits[i]) = None THEN None
        ELSE IF Len(digits) = 1 THEN to_digit_16(digits[1])
        ELSE to_digit_16(digits[1]) * 16 + to_digit_16(digits[2])

\* bytes.iter().position(|&b| b == b'#'), zero based; None if there is none
position_of_pound(bytes) ==
    IF \E i \in 1..Len(bytes) : bytes[i] = Ord["#"]
      THEN (CHOOSE i \in 1..Len(bytes) :
                bytes[i] = Ord["#"] /\ \A j \in 1..(i - 1) : bytes[j] # Ord["#"]) - 1
      ELSE None

\* Err(GDBRemoteError::ParseError(..))
ParseError == [ok |-> FALSE, error |-> "ParseError"]

\* parse_gdb_packet(bytes)
parse_gdb_packet(bytes) ==
    IF Len(bytes) < 4 THEN ParseError
    ELSE IF bytes[1] # Ord["$"] THEN ParseError
    ELSE LET pound_i == position_of_pound(bytes)
         IN  IF pound_i = None THEN ParseError
             ELSE IF Len(bytes) < pound_i + 3 THEN ParseError
             ELSE LET contents == SubSeq(bytes, 2, pound_i)
                      contents_checksum == fold_wrapping_add(0, contents)
                      packet_checksum ==
                          from_str_radix_16(SubSeq(bytes, pound_i + 2, pound_i + 3))
                  IN  IF packet_checksum = None THEN ParseError
                      ELSE IF contents_checksum # packet_checksum THEN ParseError
                      ELSE [ok |-> TRUE, contents |-> contents]

\* the strings the client sends and the server answers: no '$', no '#'
RECURSIVE StringsUpTo(_)
StringsUpTo(n) ==
    IF n = 0 THEN {<<>>}
    ELSE StringsUpTo(n - 1) \cup
         {Append(str, c) : str \in StringsUpTo(n - 1), c \in {Ord["q"], Ord["C"]}}

\* the two bytes a server transmits as checksum: any two of these characters
ChecksumBytes == {Ord["0"], Ord["4"], Ord["5"], Ord["b"], Ord["B"], Ord["+"]}

\* what the server writes in answer to a packet: an optional '+', and a frame $..#xx whose
\* checksum is the right one or any two of ChecksumBytes; or the frame with the right
\* checksum and, behind it, a console output packet ("O") of the running target
ServerWrites ==
    LET frames == {<<Ord["$"]>> \o str \o <<Ord["#"]>> \o xx :
                      str \in StringsUpTo(MaxPayload),
                      xx \in {<<a, b>> : a \in ChecksumBytes, b \in ChecksumBytes}}
                  \cup {build_gdb_packet(str) : str \in StringsUpTo(MaxPayload)}
    IN  {<<Ord["+"]>>} \cup frames \cup {<<Ord["+"]>> \o f : f \in frames}
        \cup {build_gdb_packet(str) \o build_gdb_packet(<<Ord["O"]>>) :
                  str \in StringsUpTo(MaxPayload)}

\* read_response returns: the call is over
returns(r) ==
    /\ response' = r
    /\ gdb_pc' = "idle"

\* GDBRemote::send_packet(contents)
send_packet ==
    /\ gdb_pc = "idle"
    /\ stream_tx = <<>>
    /\ ~stream_closed
    /\ nframes < MaxFrames
    /\ \E contents \in StringsUpTo(MaxPayload) :
        stream_tx' = <<[contents |-> contents, bytes |-> build_gdb_packet(contents)]>>
    /\ UNCHANGED <<data_buffer, last_rx_packet_timestamp, gdb_pc, timeout_at, Instant_now,
                   stream_rx, stream_closed, response, nframes, nreads, appVars, bufferVars,
                   rx_timestamps, response_rx>>

\* the server reads the packet and writes its answer
Server_replies ==
    /\ stream_tx # <<>>
    /\ ~stream_closed
    /\ \E bytes \in ServerWrites : stream_rx' = stream_rx \o bytes
    /\ stream_tx' = <<>>
    /\ nframes' = nframes + 1
    /\ UNCHANGED <<data_buffer, last_rx_packet_timestamp, gdb_pc, timeout_at, Instant_now,
                   stream_closed, response, nreads, appVars, bufferVars,
                   rx_timestamps, response_rx>>

\* the server closes the connection
Server_closes ==
    /\ ~stream_closed
    /\ stream_closed' = TRUE
    /\ UNCHANGED <<data_buffer, last_rx_packet_timestamp, gdb_pc, timeout_at, Instant_now,
                   stream_rx, stream_tx, response, nframes, nreads, appVars, bufferVars,
                   rx_timestamps, response_rx>>

\* time passes
Instant_passes ==
    /\ Instant_now < MaxInstant
    /\ Instant_now' = Instant_now + 1
    /\ UNCHANGED <<data_buffer, last_rx_packet_timestamp, gdb_pc, timeout_at, stream_rx,
                   stream_closed, stream_tx, response, nframes, nreads, appVars, bufferVars,
                   rx_timestamps, response_rx>>

\* read_response is called: let timeout_at = Instant::now() + self.timeout
read_response ==
    /\ gdb_pc = "idle"
    /\ nreads < MaxReads
    /\ nreads' = nreads + 1
    /\ timeout_at' = Instant_now + DEFAULT_TIMEOUT
    /\ gdb_pc' = "loop"
    /\ UNCHANGED <<data_buffer, last_rx_packet_timestamp, Instant_now, stream_rx,
                   stream_closed, stream_tx, response, nframes, appVars, bufferVars,
                   rx_timestamps, response_rx>>

\* one turn of the loop of read_response: eat_ack, else eat_packet, else go on to feed
\* the buffer; the Err of eat_packet is dropped by `if let Ok(data)`
read_response_eat ==
    /\ gdb_pc = "loop"
    /\ IF Len(data_buffer) > 0 /\ data_buffer[1] = Ord["+"]
         THEN /\ data_buffer' = Tail(data_buffer)
              /\ rx_timestamps' = Tail(rx_timestamps)
              /\ response_rx' = rx_timestamps[1]
              /\ returns(IF last_rx_packet_timestamp # None
                           THEN [kind |-> "ACK", timestamp |-> last_rx_packet_timestamp]
                           ELSE [kind |-> "panic"])
         ELSE LET packet == parse_gdb_packet(data_buffer)
              IN  IF packet.ok
                    THEN /\ data_buffer' = SubSeq(data_buffer, Len(packet.contents) + 5,
                                                  Len(data_buffer))
                         /\ rx_timestamps' = SubSeq(rx_timestamps, Len(packet.contents) + 5,
                                                    Len(rx_timestamps))
                         /\ response_rx' = rx_timestamps[1]
                         /\ returns(IF last_rx_packet_timestamp # None
                                      THEN [kind |-> "Packet", data |-> packet.contents,
                                            timestamp |-> last_rx_packet_timestamp]
                                      ELSE [kind |-> "panic"])
                    ELSE /\ gdb_pc' = "feed"
                         /\ UNCHANGED <<data_buffer, response, rx_timestamps, response_rx>>
    /\ UNCHANGED <<last_rx_packet_timestamp, timeout_at, Instant_now, stream_rx,
                   stream_closed, stream_tx, nframes, nreads, appVars, bufferVars>>

\* feed_buffer_from_stream: timeout_at < now at entry, or nothing arrives before timeout_at
feed_buffer_from_stream_Timeout ==
    /\ gdb_pc = "feed"
    /\ \/ timeout_at < Instant_now /\ UNCHANGED Instant_now
       \/ /\ timeout_at >= Instant_now
          /\ stream_rx = <<>> /\ ~stream_closed
          /\ Instant_now' = timeout_at
    /\ returns([kind |-> "Err", error |-> "Timeout"])
    /\ response_rx' = None
    /\ UNCHANGED <<data_buffer, last_rx_packet_timestamp, timeout_at, stream_rx,
                   stream_closed, stream_tx, nframes, nreads, appVars, bufferVars,
                   rx_timestamps>>

\* the bytes that start a response
StartBytes == {Ord["$"], Ord["+"]}

\* feed_buffer_from_stream: receive returned n > 0 bytes and the timestamp of their arrival
feed_buffer_from_stream_Ok ==
    /\ gdb_pc = "feed"
    /\ timeout_at >= Instant_now
    /\ \E n \in 1..Len(stream_rx) :
        LET received_bytes == SubSeq(stream_rx, 1, n)
            timestamp == Instant_now
        IN  /\ data_buffer' = data_buffer \o received_bytes
            /\ stream_rx' = SubSeq(stream_rx, n + 1, Len(stream_rx))
            /\ last_rx_packet_timestamp' =
                  IF \E i \in 1..n : received_bytes[i] \in StartBytes
                    THEN timestamp ELSE last_rx_packet_timestamp
            /\ rx_timestamps' = rx_timestamps \o
                  [i \in 1..n |-> IF received_bytes[i] \in StartBytes THEN timestamp ELSE None]
    /\ gdb_pc' = "loop"
    /\ UNCHANGED <<timeout_at, Instant_now, stream_closed, stream_tx, response, nframes,
                   nreads, appVars, bufferVars, response_rx>>

\* feed_buffer_from_stream: receive returned 0 bytes, the end of the stream
feed_buffer_from_stream_EndOfStream ==
    /\ gdb_pc = "feed"
    /\ timeout_at >= Instant_now
    /\ stream_rx = <<>> /\ stream_closed
    /\ returns([kind |-> "Err", error |-> "EndOfStream"])
    /\ response_rx' = None
    /\ UNCHANGED <<data_buffer, last_rx_packet_timestamp, timeout_at, Instant_now, stream_rx,
                   stream_closed, stream_tx, nframes, nreads, appVars, bufferVars,
                   rx_timestamps>>

\* feed_buffer_from_stream: receive failed with another io::Error
feed_buffer_from_stream_IOError ==
    /\ gdb_pc = "feed"
    /\ timeout_at >= Instant_now
    /\ stream_rx = <<>>
    /\ returns([kind |-> "Err", error |-> "IOError"])
    /\ response_rx' = None
    /\ UNCHANGED <<data_buffer, last_rx_packet_timestamp, timeout_at, Instant_now, stream_rx,
                   stream_closed, stream_tx, nframes, nreads, appVars, bufferVars,
                   rx_timestamps>>

NextGdb ==
    \/ send_packet
    \/ Server_replies
    \/ Server_closes
    \/ Instant_passes
    \/ read_response
    \/ read_response_eat
    \/ feed_buffer_from_stream_Timeout
    \/ feed_buffer_from_stream_Ok
    \/ feed_buffer_from_stream_EndOfStream
    \/ feed_buffer_from_stream_IOError

SpecGdb == Init /\ [][NextGdb]_vars

\* the sum of the bytes of a string
RECURSIVE ByteSum(_)
ByteSum(bytes) == IF bytes = <<>> THEN 0 ELSE Head(bytes) + ByteSum(Tail(bytes))

\* bytes is one frame $<payload>#<xx>, the payload without '#'
IsFrame(bytes) ==
    /\ Len(bytes) >= 4
    /\ bytes[1] = Ord["$"]
    /\ bytes[Len(bytes) - 2] = Ord["#"]
    /\ \A i \in 2..(Len(bytes) - 3) : bytes[i] # Ord["#"]

\* the two checksum characters of a frame are two hex digits whose value is the sum
\* modulo 256 of its payload
ChecksumDenotesSum(bytes) ==
    LET hi == to_digit_16(bytes[Len(bytes) - 1])
        lo == to_digit_16(bytes[Len(bytes)])
    IN  /\ hi # None /\ lo # None
        /\ hi * 16 + lo = ByteSum(SubSeq(bytes, 2, Len(bytes) - 3)) % 256

\* the head of the receive buffer is a whole frame ($, a payload, #, two more bytes) that
\* parse_gdb_packet rejects
BadFrameAtHead ==
    /\ Len(data_buffer) >= 4
    /\ data_buffer[1] = Ord["$"]
    /\ position_of_pound(data_buffer) # None
    /\ Len(data_buffer) >= position_of_pound(data_buffer) + 3
    /\ ~parse_gdb_packet(data_buffer).ok

\* C17: for every string s without '$' and '#', parse_gdb_packet(build_gdb_packet(s))
\* succeeds and returns the bytes of s.
C17_RoundTrip ==
    \A sent \in {stream_tx[i] : i \in 1..Len(stream_tx)} :
        parse_gdb_packet(sent.bytes) = [ok |-> TRUE, contents |-> sent.contents]

\* send_packet has built the packet of a three byte string whose byte sum wraps at 256
C17_Witness ==
    /\ stream_tx # <<>>
    /\ Len(stream_tx[1].contents) = MaxPayload
    /\ ByteSum(stream_tx[1].contents) >= 256

\* C18: parse_gdb_packet returns a ParseError, and no payload, for every frame
\* $<payload>#<xx> whose two checksum characters do not denote the sum modulo 256 of the
\* payload bytes.
C18_RejectsBadChecksum ==
    (IsFrame(data_buffer) /\ ~ChecksumDenotesSum(data_buffer)) =>
        ~parse_gdb_packet(data_buffer).ok

\* C19 as stated: build_gdb_packet("qC") is the byte string $qC#b5.
C19_qC_is_b5 ==
    \A sent \in {stream_tx[i] : i \in 1..Len(stream_tx)} :
        sent.contents = as_bytes(<<"q", "C">>) =>
            sent.bytes = as_bytes(<<"$", "q", "C", "#", "b", "5">>)

\* C19, amended: build_gdb_packet("qC") is the byte string $qC#b4, the two lower case hex
\* digits of the byte sum of 'q' and 'C' modulo 256.
C19_qC_is_b4 ==
    \A sent \in {stream_tx[i] : i \in 1..Len(stream_tx)} :
        sent.contents = as_bytes(<<"q", "C">>) =>
            sent.bytes = as_bytes(<<"$", "q", "C", "#", "b", "4">>)

\* send_packet("qC") has built its packet
C19_Witness == stream_tx # <<>> /\ stream_tx[1].contents = as_bytes(<<"q", "C">>)

\* C20: when the head of the receive buffer is a frame that fails to parse or whose
\* checksum does not match, the error read_response returns is a ParseError, not Timeout
\* or EndOfStream.
C20_ParseErrorReported ==
    (gdb_pc = "idle" /\ response.kind = "Err" /\ BadFrameAtHead) =>
        response.error = "ParseError"

\* C21: the Timestamp read_response returns with a response is the timestamp of the receive
\* that delivered the first byte of that response ('+' of an Ack, '$' of a packet), however
\* the responses are split across the receives.
C21_TimestampOfFirstByte ==
    (gdb_pc = "idle" /\ response.kind \in {"ACK", "Packet"}) =>
        response.timestamp = response_rx

(***************************************************************************)
(* The RTT channel name (rttsampler.rs): parse_scope_packet_structure on   *)
(* its own.  A name is the sequence of its characters.                     *)
(***************************************************************************)
\* characters of the names that are enumerated
MaxNameLen == 4

\* the characters the enumerated names are made of
NameChars == {"_", "T", "t", "4", "2", "1", "b", "F", "i", "U", "x"}

\* the names of the unit tests
TestNames ==
    {<<"J", "S", "c", "o", "p", "e", "_", "T", "4", "F", "4", "F", "4">>,
     <<"J", "S", "c", "o", "p", "e", "_", "F", "4", "F", "4">>,
     <<"J", "S", "c", "o", "p", "e", "_", "T", "4", "B", "1", "F", "4", "I", "2", "U", "2">>}

RECURSIVE NamesUpTo(_)
NamesUpTo(n) ==
    IF n = 0 THEN {<<>>}
    ELSE NamesUpTo(n - 1) \cup {Append(str, c) : str \in NamesUpTo(n - 1), c \in NameChars}

\* the channel names parse_scope_packet_structure is called with
ChannelNames == NamesUpTo(MaxNameLen) \cup TestNames

\* char::to_ascii_lowercase
to_ascii_lowercase(c) ==
    LET lower == ("B" :> "b") @@ ("F" :> "f") @@ ("I" :> "i") @@ ("J" :> "j")
                 @@ ("S" :> "s") @@ ("T" :> "t") @@ ("U" :> "u")
    IN  IF c \in DOMAIN lower THEN lower[c] ELSE c

\* channel_name.split('_').last(): what follows the last '_', the whole name if there
\* is none
split_last(name) ==
    LET at == {i \in 1..Len(name) : name[i] = "_"}
    IN  IF at = {} THEN name
        ELSE SubSeq(name, (CHOOSE i \in at : \A j \in at : j <= i) + 1, Len(name))

\* RTTScopePacketField::parse(description), description two characters long
RTTScopePacketField_parse(description) ==
    LET type_char == to_ascii_lowercase(description[1])
        size_char == to_ascii_lowercase(description[2])
    IN  IF size_char \notin {"1", "2", "4"} THEN [ok |-> FALSE]
        ELSE LET size == CASE size_char = "1" -> 1 [] size_char = "2" -> 2 [] OTHER -> 4
             IN  CASE type_char = "b" /\ size = 1 ->
                        [ok |-> TRUE, type_ |-> "Boolean", size |-> size]
                   [] type_char = "f" /\ size = 4 ->
                        [ok |-> TRUE, type_ |-> "Float", size |-> size]
                   [] type_char = "i" -> [ok |-> TRUE, type_ |-> "Signed", size |-> size]
                   [] type_char = "u" -> [ok |-> TRUE, type_ |-> "Unsigned", size |-> size]
                   [] OTHER -> [ok |-> FALSE]

\* while to_parse.len() >= 2 { fields.push(RTTScopePacketField::parse(..)?); .. }
RECURSIVE parse_fields(_, _)
parse_fields(to_parse, fields) ==
    IF Len(to_parse) < 2 THEN [ok |-> TRUE, fields |-> fields]
    ELSE LET field == RTTScopePacketField_parse(SubSeq(to_parse, 1, 2))
         IN  IF ~field.ok THEN [ok |-> FALSE]
             ELSE parse_fields(SubSeq(to_parse, 3, Len(to_parse)),
                               Append(fields, [type_ |-> field.type_, size |-> field.size]))

\* str::strip_prefix("t4")
has_prefix_t4(str) == Len(str) >= 2 /\ str[1] = "t" /\ str[2] = "4"

\* parse_scope_packet_structure(channel_name): [ok |-> FALSE] for None
parse_scope_packet_structure(name) ==
    LET last == split_last(name)
        format_string == [i \in 1..Len(last) |-> to_ascii_lowercase(last[i])]
        stripped == has_prefix_t4(format_string)
        to_parse == IF stripped THEN SubSeq(format_string, 3, Len(format_string))
                    ELSE format_string
        parsed == parse_fields(to_parse, <<>>)
    IN  IF parsed.ok
          THEN [ok |-> TRUE, has_u32_us_time |-> stripped, fields |-> parsed.fields]
          ELSE [ok |-> FALSE]

\* the sum of the sizes of the fields
RECURSIVE sum_of_sizes(_)
sum_of_sizes(fields) ==
    IF fields = <<>> THEN 0 ELSE Head(fields).size + sum_of_sizes(Tail(fields))

\* RTTScopePacketStructure::packet_size
packet_size(structure) ==
    LET time_field_size == IF structure.has_u32_us_time THEN 4 ELSE 0
    IN  sum_of_sizes(structure.fields) + time_field_size

\* RTTSampler::start parses the name of the channel it picked
parse_scope_packet_structure_call ==
    /\ packet_structure.fn = "none"
    /\ \E name \in ChannelNames :
        /\ channel_name' = name
        /\ packet_structure' = [fn |-> "parse_scope_packet_structure",
                                ret |-> parse_scope_packet_structure(name)]
    /\ UNCHANGED decode_bytes_call
    /\ UNCHANGED <<workerVars, chanVars, wireVars, logVars, debug_assertions, backend,
                   has_u32_us_time, handle, cpc, start_result, received, ncmds, nstarts,
                   scopeVars, bufferVars, gdbVars, unitVars>>

\* the two 16-bit halves of the little-endian number in up to four bytes
from_le_bytes(bytes) ==
    LET byte(i) == IF i <= Len(bytes) THEN bytes[i] ELSE 0
    IN  [lo |-> byte(1) + 256 * byte(2), hi |-> byte(3) + 256 * byte(4)]

\* i8 / i16 / i32::from_le_bytes: the number above, sign-extended to 32 bits
signed_from_le_bytes(bytes) ==
    LET u == from_le_bytes(bytes)
    IN  CASE Len(bytes) = 1 ->
                IF u.lo >= 128 THEN [lo |-> 65280 + u.lo, hi |-> -1] ELSE u
          [] Len(bytes) = 2 ->
                IF u.lo >= 32768 THEN [lo |-> u.lo, hi |-> -1] ELSE u
          [] OTHER ->
                IF u.hi >= 32768 THEN [lo |-> u.lo, hi |-> u.hi - 65536] ELSE u

\* RTTScopePacketField::decode(bytes): the value before the cast to f32, as its two
\* halves (hi * 65536 + lo; for a Float the bits of the f32); [ok |-> FALSE] for None
RTTScopePacketField_decode(field, bytes) ==
    CASE field.type_ = "Boolean" ->
            IF bytes = <<>> THEN [ok |-> FALSE]
            ELSE [ok |-> TRUE, value |-> [lo |-> IF bytes[1] # 0 THEN 1 ELSE 0, hi |-> 0]]
      [] field.type_ = "Float" ->
            IF Len(bytes) = 4 THEN [ok |-> TRUE, value |-> from_le_bytes(bytes)]
            ELSE [ok |-> FALSE]
      [] field.type_ = "Signed" /\ field.size \in {1, 2, 4} ->
            IF Len(bytes) = field.size
              THEN [ok |-> TRUE, value |-> signed_from_le_bytes(bytes)]
              ELSE [ok |-> FALSE]
      [] field.type_ = "Unsigned" /\ field.size \in {1, 2, 4} ->
            IF Len(bytes) = field.size THEN [ok |-> TRUE, value |-> from_le_bytes(bytes)]
            ELSE [ok |-> FALSE]
      [] OTHER -> [ok |-> FALSE]

\* a faulty slice: the bytes are not advanced
rest_after_Same(bytes, n) == bytes

\* bytes = &bytes[n..]
rest_after(bytes, n) == SubSeq(bytes, n + 1, Len(bytes))

\* self.fields.iter().map(|field| { .. field.decode(to_decode) }).collect::<Option<Vec>>()
RECURSIVE decode_fields(_, _, _)
decode_fields(fields, bytes, values) ==
    IF fields = <<>> THEN [ok |-> TRUE, values |-> values]
    ELSE LET field == Head(fields)
             decoded == RTTScopePacketField_decode(field, SubSeq(bytes, 1, field.size))
         IN  IF ~decoded.ok THEN [ok |-> FALSE]
             ELSE decode_fields(Tail(fields), rest_after(bytes, field.size),
                                Append(values, decoded.value))

\* RTTScopePacketStructure::decode_bytes(bytes): [ok |-> FALSE] for None
decode_bytes(structure, bytes) ==
    LET time == IF structure.has_u32_us_time
                  THEN [some |-> TRUE, value |-> from_le_bytes(SubSeq(bytes, 1, 4))]
                  ELSE [some |-> FALSE]
        rest == IF structure.has_u32_us_time THEN rest_after(bytes, 4) ELSE bytes
        decoded == decode_fields(structure.fields, rest, <<>>)
    IN  IF decoded.ok THEN [ok |-> TRUE, time |-> time, values |-> decoded.values]
        ELSE [ok |-> FALSE]

\* the packets that are decoded: of the given length, with the bytes 1, 2, 3, ..,
\* with 255, 254, 253, .., all 0 and all 255
PacketsOfSize(n) ==
    {[i \in 1..n |-> i], [i \in 1..n |-> 256 - i], [i \in 1..n |-> 0], [i \in 1..n |-> 255]}

\* the sampler decodes a packet of packet_size() bytes with the structure it parsed
decode_bytes_call_on_packet ==
    /\ packet_structure.fn = "parse_scope_packet_structure"
    /\ packet_structure.ret.ok
    /\ decode_bytes_call.fn = "none"
    /\ \E bytes \in PacketsOfSize(packet_size(packet_structure.ret)) :
         decode_bytes_call' = [fn |-> "decode_bytes", bytes |-> bytes,
                               ret |-> decode_bytes(packet_structure.ret, bytes)]
    /\ UNCHANGED <<channel_name, packet_structure>>
    /\ UNCHANGED <<workerVars, chanVars, wireVars, logVars, debug_assertions, backend,
                   has_u32_us_time, handle, cpc, start_result, received, ncmds, nstarts,
                   scopeVars, bufferVars, gdbVars, unitVars>>

NextParse == parse_scope_packet_structure_call \/ decode_bytes_call_on_packet

SpecParse == Init /\ [][NextParse]_vars

\* the field descriptions of the naming convention, in lower case
ValidFields == {<<"b", "1">>, <<"f", "4">>, <<"i", "1">>, <<"i", "2">>, <<"i", "4">>,
                <<"u", "1">>, <<"u", "2">>, <<"u", "4">>}

\* the part of a lower case format string after the optional t4
FieldsPart(format) ==
    IF has_prefix_t4(format) THEN SubSeq(format, 3, Len(format)) ELSE format

\* the k-th field description of a format string
FieldAt(format, k) == <<FieldsPart(format)[2 * k - 1], FieldsPart(format)[2 * k]>>

\* the format string is [T4] (<kind><size>)+, one trailing character ignored
MatchesGrammar(format) ==
    /\ Len(FieldsPart(format)) \div 2 >= 1
    /\ \A k \in 1..(Len(FieldsPart(format)) \div 2) : FieldAt(format, k) \in ValidFields

\* the fields a format string that matches describes
FieldsOf(format) ==
    LET kind == ("b" :> "Boolean") @@ ("f" :> "Float") @@ ("i" :> "Signed")
                @@ ("u" :> "Unsigned")
        size == ("1" :> 1) @@ ("2" :> 2) @@ ("4" :> 4)
    IN  [k \in 1..(Len(FieldsPart(format)) \div 2) |->
            [type_ |-> kind[FieldAt(format, k)[1]], size |-> size[FieldAt(format, k)[2]]]]

\* the lower case format string of the name that was parsed
FormatOfName ==
    [i \in 1..Len(split_last(channel_name)) |-> to_ascii_lowercase(split_last(channel_name)[i])]

\* C30: parse_scope_packet_structure accepts exactly the names whose part after the last
\* '_' matches [T4] (<kind><size>)+ (case-insensitively, one trailing character ignored)
\* and rejects every other name, one without a field included; on success has_u32_us_time
\* is true iff T4 is present, the fields are returned in order and packet_size() is the sum
\* of the field sizes plus 4 when T4 is present.
C30_ParsesExactlyTheGrammar ==
    packet_structure.fn = "parse_scope_packet_structure" =>
        /\ packet_structure.ret.ok <=> MatchesGrammar(FormatOfName)
        /\ packet_structure.ret.ok =>
            /\ packet_structure.ret.has_u32_us_time <=> has_prefix_t4(FormatOfName)
            /\ packet_structure.ret.fields = FieldsOf(FormatOfName)
            /\ packet_size(packet_structure.ret)
                 = sum_of_sizes(FieldsOf(FormatOfName))
                   + (IF has_prefix_t4(FormatOfName) THEN 4 ELSE 0)

\* where the k-th field of the parsed structure begins in a packet, counted from 0
FieldOffset(k) ==
    (IF packet_structure.ret.has_u32_us_time THEN 4 ELSE 0)
        + sum_of_sizes(SubSeq(packet_structure.ret.fields, 1, k - 1))

\* C31: for a structure returned by the parser and a packet of packet_size() bytes,
\* decode_bytes succeeds, returns one value per field, the k-th decoded from the bytes of
\* the k-th field's own range, and returns a timestamp (the first four bytes) iff the
\* format has the T4 prefix.
C31_DecodesEveryField ==
    decode_bytes_call.fn = "decode_bytes" =>
        LET fields == packet_structure.ret.fields
            bytes == decode_bytes_call.bytes
            ret == decode_bytes_call.ret
        IN  /\ ret.ok
            /\ Len(ret.values) = Len(fields)
            /\ \A k \in 1..Len(fields) :
                  /\ FieldOffset(k) + fields[k].size <= Len(bytes)
                  /\ [ok |-> TRUE, value |-> ret.values[k]]
                       = RTTScopePacketField_decode(
                            fields[k], SubSeq(bytes, FieldOffset(k) + 1,
                                              FieldOffset(k) + fields[k].size))
            /\ ret.time.some <=> has_prefix_t4(FormatOfName)
            /\ ret.time.some => ret.time.value = from_le_bytes(SubSeq(bytes, 1, 4))
            /\ (Len(fields) > 0 /\ Len(bytes) > 0) =>
                  FieldOffset(Len(fields)) + fields[Len(fields)].size = Len(bytes)

\* the packet 1, 2, .., 13 was decoded with the structure of JScope_T4B1F4I2U2
C31_Witness ==
    /\ decode_bytes_call.fn = "decode_bytes"
    /\ Len(packet_structure.ret.fields) = 4
    /\ decode_bytes_call.bytes = [i \in 1..13 |-> i]
    /\ decode_bytes_call.ret.ok
    /\ decode_bytes_call.ret.time = [some |-> TRUE, value |-> [lo |-> 513, hi |-> 1027]]
    /\ decode_bytes_call.ret.values
         = <<[lo |-> 1, hi |-> 0], [lo |-> 1798, hi |-> 2312], [lo |-> 2826, hi |-> 0],
             [lo |-> 3340, hi |-> 0]>>

(***************************************************************************)
(* The tick timing of the FakeSampler and the MemSampler (fakesampler.rs,  *)
(* memsampler.rs: sampler_thread), on its own: the loop with its commands, *)
(* its sleep and last_sampled_at, while time passes.                       *)
(***************************************************************************)
\* the period, in units of the clock
Period == 2

\* the clock stops here
MaxNow == 6

\* everything but the variables of the tick timing
notTick == <<workerVars, chanVars, wireVars, logVars, debug_assertions, backend,
             has_u32_us_time, handle, cpc, start_result, received, ncmds, nstarts, scopeVars,
             bufferVars, gdbVars, parseVars, ttsVars, telnetVars, rttVars>>

\* a faulty step 2: the next deadline is counted from the time the tick ran
next_deadline_FromNow(last, now) == now

\* last_sampled_at += period
next_deadline(last, now) == last + Period

\* let mut status = Status::Initializing; let mut last_sampled_at = Instant::now();
tick_sampler_thread ==
    /\ tick_pc = "none"
    /\ \E b \in {"Fake", "Mem"} : tick_backend' = b
    /\ tick_pc' = "loop"
    /\ tick_status' = "Initializing"
    /\ tick_maybe_new_status' = "None"
    /\ last_sampled_at' = tick_now
    /\ UNCHANGED <<tick_now, sleep_until, notTick>>

\* time passes while the worker runs
tick_time_passes ==
    /\ tick_pc \notin {"none", "done"}
    /\ tick_now < MaxNow
    /\ tick_now' = tick_now + 1
    /\ UNCHANGED <<tick_backend, tick_pc, tick_status, tick_maybe_new_status, last_sampled_at,
                   sleep_until, notTick>>

\* Status::Initializing => { maybe_new_status = Some(Sampling); last_sampled_at = now }
\* (the MemSampler sends `c` first)
tick_Initializing ==
    /\ tick_pc = "loop" /\ tick_status = "Initializing"
    /\ tick_maybe_new_status' = "Sampling"
    /\ last_sampled_at' = tick_now
    /\ tick_pc' = "notify"
    /\ UNCHANGED <<tick_backend, tick_status, tick_now, sleep_until, notTick>>

\* Status::Sampling: match command_rx.try_recv(); the FakeSampler goes to step 2 in the
\* Err(Empty) arm only, the MemSampler after every arm
tick_Sampling_try_recv ==
    /\ tick_pc = "loop" /\ tick_status = "Sampling"
    /\ \E c \in {"Stop", "Pause", "SetActiveSignals", "Resume", "Empty"} :
         /\ tick_maybe_new_status' = CASE c = "Stop" -> "Terminated"
                                       [] c = "Pause" -> "Paused"
                                       [] OTHER -> "None"
         /\ tick_pc' = IF c = "Empty" \/ tick_backend = "Mem" THEN "wait" ELSE "notify"
    /\ UNCHANGED <<tick_backend, tick_status, last_sampled_at, tick_now, sleep_until, notTick>>

\* step 2: let elapsed = last_sampled_at.elapsed(); if elapsed < period { thread::sleep(
\* period - elapsed) }: the sleep is entered, or skipped and last_sampled_at += period
tick_wait ==
    /\ tick_pc = "wait"
    /\ LET elapsed == tick_now - last_sampled_at
       IN  IF elapsed < Period
             THEN /\ sleep_until' = tick_now + (Period - elapsed)
                  /\ tick_pc' = "sleep"
                  /\ UNCHANGED last_sampled_at
             ELSE /\ last_sampled_at' = next_deadline(last_sampled_at, tick_now)
                  /\ tick_pc' = "sample"
                  /\ UNCHANGED sleep_until
    /\ UNCHANGED <<tick_backend, tick_status, tick_maybe_new_status, tick_now, notTick>>

\* thread::sleep returns, not before the duration is over; last_sampled_at += period
tick_sleep_returns ==
    /\ tick_pc = "sleep"
    /\ tick_now >= sleep_until
    /\ last_sampled_at' = next_deadline(last_sampled_at, tick_now)
    /\ tick_pc' = "sample"
    /\ UNCHANGED <<tick_backend, tick_status, tick_maybe_new_status, tick_now, sleep_until,
                   notTick>>

\* step 3: the sample is taken and sent
tick_sample ==
    /\ tick_pc = "sample"
    /\ tick_pc' = "notify"
    /\ UNCHANGED <<tick_backend, tick_status, tick_maybe_new_status, last_sampled_at,
                   tick_now, sleep_until, notTick>>

\* Status::Paused => match command_rx.recv(): Resume => { maybe_new_status =
\* Some(Sampling); last_sampled_at = Instant::now() }
tick_Paused_recv ==
    /\ tick_pc = "loop" /\ tick_status = "Paused"
    /\ \E c \in {"Stop", "Pause", "SetActiveSignals", "Resume"} :
         /\ tick_maybe_new_status' = CASE c = "Stop" -> "Terminated"
                                       [] c = "Resume" -> "Sampling"
                                       [] OTHER -> "None"
         /\ last_sampled_at' = IF c = "Resume" THEN tick_now ELSE last_sampled_at
    /\ tick_pc' = "notify"
    /\ UNCHANGED <<tick_backend, tick_status, tick_now, sleep_until, notTick>>

\* the bottom of the loop: Some(new_status) if new_status != status => status = new_status
tick_notify ==
    /\ tick_pc = "notify"
    /\ tick_status' = IF tick_maybe_new_status # "None" THEN tick_maybe_new_status
                      ELSE tick_status
    /\ tick_maybe_new_status' = "None"
    /\ tick_pc' = "loop"
    /\ UNCHANGED <<tick_backend, last_sampled_at, tick_now, sleep_until, notTick>>

\* Status::Terminated => break
tick_Terminated ==
    /\ tick_pc = "loop" /\ tick_status = "Terminated"
    /\ tick_pc' = "done"
    /\ UNCHANGED <<tick_backend, tick_status, tick_maybe_new_status, last_sampled_at,
                   tick_now, sleep_until, notTick>>

NextTick ==
    \/ tick_sampler_thread \/ tick_time_passes \/ tick_Initializing
    \/ tick_Sampling_try_recv \/ tick_wait \/ tick_sleep_returns \/ tick_sample
    \/ tick_Paused_recv \/ tick_notify \/ tick_Terminated

SpecTick == Init /\ [][NextTick]_vars

\* the step of a tick that ends its wait
EndsWait == tick_pc \in {"wait", "sleep"} /\ tick_pc' = "sample"

\* C37: in the FakeSampler and the MemSampler every tick sets last_sampled_at to its
\* previous value plus one period, however late the tick runs; the worker sleeps only when
\* less than one period has passed since last_sampled_at, and then until last_sampled_at
\* plus one period; last_sampled_at changes otherwise only when the worker enters Sampling
\* (from Initializing or on Resume), to the current time.
C37_DeadlineAccumulates ==
    [][/\ tick_pc # "none" =>
          /\ EndsWait => last_sampled_at' = last_sampled_at + Period
          /\ (tick_pc = "wait" /\ tick_pc' = "sleep") =>
                /\ tick_now - last_sampled_at < Period
                /\ sleep_until' = last_sampled_at + Period
          /\ (tick_pc = "wait" /\ tick_pc' # "wait"
              /\ tick_now - last_sampled_at >= Period) => tick_pc' = "sample"
          /\ (last_sampled_at' # last_sampled_at /\ ~EndsWait) =>
                /\ tick_pc = "loop" /\ tick_status \in {"Initializing", "Paused"}
                /\ tick_maybe_new_status' = "Sampling"
                /\ last_sampled_at' = tick_now
          /\ (tick_pc = "loop" /\ tick_maybe_new_status' = "Sampling") =>
                last_sampled_at' = tick_now
       /\ last_sampled_at <= tick_now]_vars

\* a tick that ran more than a period late has moved the deadline by one period only
C37_Witness ==
    /\ tick_pc = "sample"
    /\ tick_status = "Sampling"
    /\ tick_now - last_sampled_at >= Period

(***************************************************************************)
(* TimestampedTCPStream (ttstream.rs) on a Unix system, on its own: the    *)
(* system calls return what the kernel may return.                         *)
(***************************************************************************)
\* SystemTime::now() and the kernel's timestamps are in 0..MaxSystemTime
MaxSystemTime == 2

\* buf.len() of a receive or a send
BufLen == 2

\* everything but the variables of the stream
notTts == <<workerVars, chanVars, wireVars, logVars, debug_assertions, backend,
            has_u32_us_time, handle, cpc, start_result, received, ncmds, nstarts, scopeVars,
            bufferVars, gdbVars, parseVars, tickVars, telnetVars, rttVars>>

\* the control messages a recvmsg may deliver: SCM_TIMESTAMPING_NEW messages with
\* timespecs[0], and messages of another level or type
ControlMessages ==
    {[type |-> "SCM_TIMESTAMPING_NEW", timespec |-> t] : t \in 0..MaxSystemTime}
        \cup {[type |-> "other"]}

\* the control buffers recvmsg may fill: up to two messages
ControlBuffers ==
    {<<>>} \cup {<<c>> : c \in ControlMessages}
           \cup {<<c, d>> : c \in ControlMessages, d \in ControlMessages}

\* the while loop over the control messages: found_timestamp, None as [ok |-> FALSE]
RECURSIVE found_timestamp(_, _)
found_timestamp(cmsgs, found) ==
    IF cmsgs = <<>> THEN found
    ELSE found_timestamp(Tail(cmsgs),
                         IF Head(cmsgs).type = "SCM_TIMESTAMPING_NEW"
                           THEN [ok |-> TRUE, timestamp |-> Head(cmsgs).timespec]
                           ELSE found)

\* return match found_timestamp { Some(timestamp) => Ok(..), None => Err(Other, "SCM_
\* TIMESTAMPING control message not found") }
timestamp_or_error(found, n, now) ==
    IF found.ok THEN [ok |-> TRUE, n |-> n, timestamp |-> found.timestamp]
    ELSE [ok |-> FALSE, error |-> "SCM_TIMESTAMPING control message not found"]

\* the wall clock advances
SystemTime_passes ==
    /\ SystemTime_now < MaxSystemTime
    /\ SystemTime_now' = SystemTime_now + 1
    /\ UNCHANGED <<tts_connected, timestamping_enabled, tts_call, notTts>>

\* TimestampedTCPStream::connect(addr)
TimestampedTCPStream_connect ==
    /\ ~tts_connected
    /\ \E tcp_ok \in BOOLEAN, setsockopt \in {-1, 0} :
         IF ~tcp_ok
           THEN /\ tts_call' = [fn |-> "connect", ret |-> [ok |-> FALSE, error |-> "os"]]
                /\ UNCHANGED <<tts_connected, timestamping_enabled>>
           ELSE /\ tts_connected' = TRUE
                /\ timestamping_enabled' = ~(setsockopt < 0)
                /\ tts_call' = [fn |-> "connect", setsockopt |-> setsockopt,
                                ret |-> [ok |-> TRUE]]
    /\ UNCHANGED <<SystemTime_now, notTts>>

\* TimestampedTCPStream::receive(buf)
TimestampedTCPStream_receive ==
    /\ tts_connected
    /\ \E n \in -1..BufLen, cmsgs \in ControlBuffers :
         tts_call' =
            [fn |-> "receive", enabled |-> timestamping_enabled, n |-> n,
             cmsgs |-> IF timestamping_enabled /\ n >= 0 THEN cmsgs ELSE <<>>,
             now |-> SystemTime_now,
             ret |-> IF n < 0 THEN [ok |-> FALSE, error |-> "os"]
                     ELSE IF timestamping_enabled
                       THEN timestamp_or_error(found_timestamp(cmsgs, [ok |-> FALSE]), n,
                                               SystemTime_now)
                       ELSE [ok |-> TRUE, n |-> n, timestamp |-> SystemTime_now]]
    /\ UNCHANGED <<tts_connected, timestamping_enabled, SystemTime_now, notTts>>

\* TimestampedTCPStream::send(buf): sendmsg wrote n bytes, recvmsg(MSG_ERRQUEUE) read
\* errqueue_n bytes of data
TimestampedTCPStream_send ==
    /\ tts_connected
    /\ \E n \in -1..BufLen, errqueue_n \in -1..1, cmsgs \in ControlBuffers :
         LET in_errqueue == timestamping_enabled /\ n = BufLen
             parsed == in_errqueue /\ errqueue_n = 0
         IN  tts_call' =
                [fn |-> "send", enabled |-> timestamping_enabled, n |-> n,
                 errqueue_n |-> IF in_errqueue THEN errqueue_n ELSE 0,
                 cmsgs |-> IF parsed THEN cmsgs ELSE <<>>,
                 now |-> SystemTime_now,
                 ret |-> IF n < 0 THEN [ok |-> FALSE, error |-> "os"]
                         ELSE IF ~timestamping_enabled
                           THEN \* write_all writes the whole buffer or fails
                                IF n = BufLen
                                  THEN [ok |-> TRUE, n |-> n, timestamp |-> SystemTime_now]
                                  ELSE [ok |-> FALSE, error |-> "os"]
                         ELSE IF n # BufLen
                           THEN [ok |-> FALSE, error |-> "wrote less bytes than requested"]
                         ELSE IF errqueue_n < 0 THEN [ok |-> FALSE, error |-> "os"]
                         ELSE IF errqueue_n # 0
                           THEN [ok |-> FALSE, error |-> "expected to read zero bytes"]
                         ELSE timestamp_or_error(found_timestamp(cmsgs, [ok |-> FALSE]), n,
                                                 SystemTime_now)]
    /\ UNCHANGED <<tts_connected, timestamping_enabled, SystemTime_now, notTts>>

NextStream ==
    \/ SystemTime_passes \/ TimestampedTCPStream_connect
    \/ TimestampedTCPStream_receive \/ TimestampedTCPStream_send

SpecStream == Init /\ [][NextStream]_vars

\* no control message of the call is a timestamp message
NoTimestampMessage ==
    \A i \in 1..Len(tts_call.cmsgs) : tts_call.cmsgs[i].type # "SCM_TIMESTAMPING_NEW"

\* the system calls of the call succeeded
SyscallsSucceeded ==
    \/ tts_call.fn = "receive" /\ tts_call.n >= 0
    \/ tts_call.fn = "send" /\ tts_call.n = BufLen /\ tts_call.errqueue_n = 0

\* C32: with kernel timestamping enabled, a receive or send whose system calls succeed
\* without a timestamp control message returns success with the wall clock as timestamp;
\* and a connect whose setsockopt fails returns a stream with timestamping_enabled false.
C32_MissingTimestampFallsBack ==
    /\ (tts_call.fn \in {"receive", "send"} /\ tts_call.enabled /\ SyscallsSucceeded
        /\ NoTimestampMessage) =>
            tts_call.ret.ok /\ tts_call.ret.timestamp = tts_call.now
    /\ (tts_call.fn = "connect" /\ tts_call.ret.ok /\ tts_call.setsockopt < 0) =>
            tts_connected /\ ~timestamping_enabled

(***************************************************************************)
(* TelnetInterface::read_line and read_into_buffer (telnet_interface.rs),  *)
(* on their own: OpenOCD writes bytes, the client calls read_line.         *)
(***************************************************************************)
\* OpenOCD writes at most this many bytes
MaxTelnetBytes == 5

\* the bytes OpenOCD writes: NUL, backspace, line feed, carriage return and 'a'
NUL == 0
BS == 8
LF == 10
CR == 13
TelnetBytes == {NUL, BS, LF, CR, 97}

\* everything but the variables of the telnet interface
notTelnet == <<workerVars, chanVars, wireVars, logVars, debug_assertions, backend,
               has_u32_us_time, handle, cpc, start_result, received, ncmds, nstarts,
               scopeVars, bufferVars, gdbVars, parseVars, tickVars, ttsVars, rttVars>>

\* buffer.iter().copied().filter(|&b| b != 0x00)
RECURSIVE filter_nonzero(_)
filter_nonzero(bytes) ==
    IF bytes = <<>> THEN <<>>
    ELSE IF Head(bytes) = NUL THEN filter_nonzero(Tail(bytes))
    ELSE <<Head(bytes)>> \o filter_nonzero(Tail(bytes))

\* self.buffer.iter().position(|&b| b == b'\n'), counted from 1; 0 for None
position_of_newline(buf) ==
    IF \E i \in 1..Len(buf) : buf[i] = LF
      THEN CHOOSE i \in 1..Len(buf) : buf[i] = LF /\ \A j \in 1..(i - 1) : buf[j] # LF
      ELSE 0

\* OpenOCD writes one byte to the connection
OpenOCD_writes ==
    /\ Len(telnet_received) + Len(telnet_connection) < MaxTelnetBytes
    /\ \E b \in TelnetBytes : telnet_connection' = Append(telnet_connection, b)
    /\ UNCHANGED <<telnet_buffer, telnet_pc, telnet_ret, telnet_received, telnet_lines,
                   notTelnet>>

\* read_line(timeout_at) is called
read_line_call ==
    /\ telnet_pc = "idle"
    /\ telnet_pc' = "loop"
    /\ telnet_ret' = [fn |-> "read_line"]
    /\ UNCHANGED <<telnet_buffer, telnet_connection, telnet_received, telnet_lines,
                   notTelnet>>

\* the top of the loop of read_line: a line is drained and returned, or drained and
\* ignored, or more data is to be read
read_line_loop ==
    /\ telnet_pc = "loop"
    /\ LET i == position_of_newline(telnet_buffer)
       IN  IF i >= 2 /\ telnet_buffer[i - 1] = CR
             THEN LET line == SubSeq(telnet_buffer, 1, i)
                  IN  /\ telnet_buffer' = SubSeq(telnet_buffer, i + 1, Len(telnet_buffer))
                      /\ IF Len(line) >= 2 /\ SubSeq(line, 1, 2) = <<BS, BS>>
                           THEN UNCHANGED <<telnet_pc, telnet_ret, telnet_lines>>
                           ELSE /\ telnet_pc' = "idle"
                                /\ telnet_ret' = [fn |-> "read_line", ok |-> TRUE,
                                                  line |-> line]
                                /\ telnet_lines' = Append(telnet_lines, line)
             ELSE /\ telnet_pc' = "read"
                  /\ UNCHANGED <<telnet_buffer, telnet_ret, telnet_lines>>
    /\ UNCHANGED <<telnet_connection, telnet_received, notTelnet>>

\* read_into_buffer(timeout_at)?: the data that has arrived is appended without its
\* 0x00 bytes; without data the deadline passes and read_line returns Err(Timeout)
read_into_buffer ==
    /\ telnet_pc = "read"
    /\ IF telnet_connection # <<>>
         THEN /\ telnet_buffer' = telnet_buffer \o filter_nonzero(telnet_connection)
              /\ telnet_received' = telnet_received \o telnet_connection
              /\ telnet_connection' = <<>>
              /\ telnet_pc' = "loop"
              /\ UNCHANGED telnet_ret
         ELSE /\ telnet_pc' = "idle"
              /\ telnet_ret' = [fn |-> "read_line", ok |-> FALSE, error |-> "Timeout"]
              /\ UNCHANGED <<telnet_buffer, telnet_received, telnet_connection>>
    /\ UNCHANGED <<telnet_lines, notTelnet>>

NextTelnet == OpenOCD_writes \/ read_line_call \/ read_line_loop \/ read_into_buffer

SpecTelnet == Init /\ [][NextTelnet]_vars

\* the CRLF-terminated lines of a sequence of bytes, in order, each with its CRLF
RECURSIVE LinesOf(_)
LinesOf(bytes) ==
    IF \E i \in 1..(Len(bytes) - 1) : bytes[i] = CR /\ bytes[i + 1] = LF
      THEN LET i == CHOOSE k \in 1..(Len(bytes) - 1) :
                        /\ bytes[k] = CR /\ bytes[k + 1] = LF
                        /\ \A j \in 1..(k - 1) : ~(bytes[j] = CR /\ bytes[j + 1] = LF)
           IN  <<SubSeq(bytes, 1, i + 1)>> \o LinesOf(SubSeq(bytes, i + 2, Len(bytes)))
      ELSE <<>>

\* the lines that do not begin with two backspaces
RECURSIVE NotErased(_)
NotErased(lines) ==
    IF lines = <<>> THEN <<>>
    ELSE IF Len(Head(lines)) >= 2 /\ SubSeq(Head(lines), 1, 2) = <<BS, BS>>
           THEN NotErased(Tail(lines))
           ELSE <<Head(lines)>> \o NotErased(Tail(lines))

\* the bytes received so far without the 0x00 bytes
ReceivedBytes ==
    LET RECURSIVE strip(_)
        strip(b) == IF b = <<>> THEN <<>>
                    ELSE (IF Head(b) = 0 THEN <<>> ELSE <<Head(b)>>) \o strip(Tail(b))
    IN  strip(telnet_received)

\* the lines read_line has to return for the bytes received so far
ExpectedLines == NotErased(LinesOf(ReceivedBytes))

\* the lines returned so far are the first of the expected lines, in order, once each
LinesInOrder ==
    /\ Len(telnet_lines) <= Len(ExpectedLines)
    /\ telnet_lines = SubSeq(ExpectedLines, 1, Len(telnet_lines))

\* C36: read_line returns the CRLF-terminated lines received from OpenOCD in arrival
\* order, each once, without the 0x00 bytes and without the lines that begin with two
\* 0x08 bytes; and every such line that is complete in the buffer is returned by
\* successive calls: a read_line that gives up with Timeout has left none behind.
C36_LinesReturnedInOrder ==
    /\ LinesInOrder
    /\ (telnet_pc = "idle" /\ telnet_ret = [fn |-> "read_line", ok |-> FALSE,
                                            error |-> "Timeout"]) =>
            telnet_lines = ExpectedLines

(***************************************************************************)
(* The RTT worker's loop at the level of bytes (SpecRtt): the stream after *)
(* the synchronization, read in chunks of any length, the buffer, the      *)
(* while loop that takes one packet at a time, and Pause / Resume / Stop.  *)
(* The rate measurement of the loop touches none of this and is left out;  *)
(* the receiver of the Samples stays alive and drains the channel.         *)
(***************************************************************************)
MaxRttBytes == 14
MaxRttCommands == 3

notRtt == <<workerVars, chanVars, wireVars, logVars, debug_assertions, backend,
            has_u32_us_time, handle, cpc, start_result, received, ncmds, nstarts, scopeVars,
            bufferVars, gdbVars, parseVars, tickVars, ttsVars, telnetVars>>

\* the packet structures of the channels: T4U1I1 (6 bytes), U2 (2 bytes), and the
\* structure without T4 and without fields that the parser returns for a name that ends
\* with "_" (0 bytes)
RttStructures ==
    {[has_u32_us_time |-> TRUE,
      fields |-> <<[type_ |-> "Unsigned", size |-> 1], [type_ |-> "Signed", size |-> 1]>>],
     [has_u32_us_time |-> FALSE, fields |-> <<>>],
     [has_u32_us_time |-> FALSE, fields |-> <<[type_ |-> "Unsigned", size |-> 2]>>]}

\* the k-th byte the target writes after the synchronization
rtt_byte(k) == (k * 37) % 256

\* a faulty loop body: a Sample for every packet, whatever the status
rtt_emits_Always(st) == TRUE

\* if matches!(status, Status::Sampling) { .. }
rtt_emits(st) == st = "Sampling"

\* values.into_iter().enumerate().map(|(i, y)| (i as u32, y as f64))
rtt_enumerate(values) == [i \in 1..Len(values) |-> [id |-> i - 1, y |-> values[i]]]

\* the worker starts its loop with the structure of the channel, synchronized
rtt_sampler_thread ==
    /\ rtt_pc = "none"
    /\ \E structure \in RttStructures : rtt_packet_structure' = structure
    /\ rtt_pc' = "loop"
    /\ UNCHANGED <<rtt_status, rtt_maybe_new_status, rtt_command_rx, rtt_ncommands,
                   rtt_channel, rtt_written,
                   rtt_buffer, rtt_sampled, rtt_received>>
    /\ UNCHANGED notRtt

\* the target writes the next byte of its packets into the channel
rtt_target_writes ==
    /\ rtt_pc \notin {"none", "done", "err"}
    /\ rtt_written < MaxRttBytes
    /\ rtt_written' = rtt_written + 1
    /\ rtt_channel' = Append(rtt_channel, rtt_byte(rtt_written + 1))
    /\ UNCHANGED <<rtt_packet_structure, rtt_pc, rtt_status, rtt_maybe_new_status,
                   rtt_command_rx, rtt_ncommands, rtt_buffer, rtt_sampled, rtt_received>>
    /\ UNCHANGED notRtt

\* pause(), resume() or stop() of the RTTSampler: a command on command_tx
rtt_command_tx_send ==
    /\ rtt_pc \notin {"none", "done", "err"}
    /\ rtt_ncommands < MaxRttCommands
    /\ rtt_ncommands' = rtt_ncommands + 1
    /\ \E command \in {"Pause", "Resume", "Stop"} :
         rtt_command_rx' = Append(rtt_command_rx, command)
    /\ UNCHANGED <<rtt_packet_structure, rtt_pc, rtt_status, rtt_maybe_new_status, rtt_channel,
                   rtt_written, rtt_buffer, rtt_sampled, rtt_received>>
    /\ UNCHANGED notRtt

\* Status::Initializing => maybe_new_status = Some(Status::Sampling)
rtt_Initializing ==
    /\ rtt_pc = "loop" /\ rtt_status = "Initializing"
    /\ rtt_maybe_new_status' = "Sampling"
    /\ rtt_pc' = "notify"
    /\ UNCHANGED <<rtt_packet_structure, rtt_status, rtt_command_rx, rtt_ncommands,
                   rtt_channel, rtt_written,
                   rtt_buffer, rtt_sampled, rtt_received>>
    /\ UNCHANGED notRtt

\* Status::Sampling | Status::Paused => match command_rx.try_recv() { .. }
rtt_try_recv ==
    /\ rtt_pc = "loop" /\ rtt_status \in {"Sampling", "Paused"}
    /\ IF rtt_command_rx = <<>>
         THEN UNCHANGED <<rtt_command_rx, rtt_maybe_new_status>>
         ELSE /\ rtt_command_rx' = Tail(rtt_command_rx)
              /\ rtt_maybe_new_status' =
                    CASE Head(rtt_command_rx) = "Stop" -> "Terminated"
                      [] Head(rtt_command_rx) = "Pause" /\ rtt_status = "Sampling" -> "Paused"
                      [] Head(rtt_command_rx) = "Resume" /\ rtt_status = "Paused" -> "Sampling"
                      [] OTHER -> "None"
    /\ rtt_pc' = "read"
    /\ UNCHANGED <<rtt_packet_structure, rtt_status, rtt_ncommands, rtt_channel,
                   rtt_written, rtt_buffer,
                   rtt_sampled, rtt_received>>
    /\ UNCHANGED notRtt

\* let read_result = rtt_channel.read(&mut read_buffer); match read_result { .. }
rtt_read ==
    /\ rtt_pc = "read"
    /\ \/ \* Ok(n) if n > 0 => buffer.extend_from_slice(&read_buffer[0..n])
          \E n \in 1..Len(rtt_channel) :
            /\ rtt_buffer' = rtt_buffer \o SubSeq(rtt_channel, 1, n)
            /\ rtt_received' = rtt_received \o
                    [i \in 1..n |-> [byte |-> rtt_channel[i], status |-> rtt_status]]
            /\ rtt_channel' = SubSeq(rtt_channel, n + 1, Len(rtt_channel))
            /\ rtt_pc' = "decode"
       \/ \* WouldBlock / TimedOut, or another Err that is only logged
          /\ rtt_channel = <<>>
          /\ rtt_pc' = "decode"
          /\ UNCHANGED <<rtt_buffer, rtt_received, rtt_channel>>
       \/ \* Ok(0): the remote end closed the stream
          /\ rtt_channel = <<>>
          /\ rtt_pc' = "err"
          /\ UNCHANGED <<rtt_buffer, rtt_received, rtt_channel>>
    /\ UNCHANGED <<rtt_packet_structure, rtt_status, rtt_maybe_new_status, rtt_command_rx,
                   rtt_ncommands,
                   rtt_written, rtt_sampled>>
    /\ UNCHANGED notRtt

\* while buffer.len() >= packet_size { .. }: one turn of the loop, or its end
rtt_decode ==
    /\ rtt_pc = "decode"
    /\ LET size == packet_size(rtt_packet_structure)
           to_decode == SubSeq(rtt_buffer, 1, size)
           decoded == decode_bytes(rtt_packet_structure, to_decode)
       IN  IF Len(rtt_buffer) < size
             THEN /\ rtt_pc' = "notify"
                  /\ UNCHANGED <<rtt_buffer, rtt_sampled>>
             ELSE IF ~rtt_emits(rtt_status)
               THEN /\ rtt_buffer' = rest_after(rtt_buffer, size)
                    /\ UNCHANGED <<rtt_pc, rtt_sampled>>
               ELSE IF ~decoded.ok \/ ~decoded.time.some
                 THEN \* "packet decode failed" / "timestamp not provided"
                      /\ rtt_pc' = "err"
                      /\ UNCHANGED <<rtt_buffer, rtt_sampled>>
                 ELSE /\ rtt_sampled' = Append(rtt_sampled,
                                               [timestamp |-> decoded.time.value,
                                                samples |-> rtt_enumerate(decoded.values)])
                      /\ rtt_buffer' = rest_after(rtt_buffer, size)
                      /\ UNCHANGED rtt_pc
    /\ UNCHANGED <<rtt_packet_structure, rtt_status, rtt_maybe_new_status, rtt_command_rx,
                   rtt_ncommands,
                   rtt_channel, rtt_written, rtt_received>>
    /\ UNCHANGED notRtt

\* match maybe_new_status { Some(new_status) if new_status != status => .. }
rtt_notify ==
    /\ rtt_pc = "notify"
    /\ rtt_status' = IF rtt_maybe_new_status # "None" THEN rtt_maybe_new_status
                     ELSE rtt_status
    /\ rtt_maybe_new_status' = "None"
    /\ rtt_pc' = "loop"
    /\ UNCHANGED <<rtt_packet_structure, rtt_command_rx, rtt_ncommands, rtt_channel,
                   rtt_written, rtt_buffer,
                   rtt_sampled, rtt_received>>
    /\ UNCHANGED notRtt

\* Status::Terminated => { openocd.rtt_server_stop(..)?; break }
rtt_Terminated ==
    /\ rtt_pc = "loop" /\ rtt_status = "Terminated"
    /\ \E ok \in BOOLEAN : rtt_pc' = IF ok THEN "done" ELSE "err"
    /\ UNCHANGED <<rtt_packet_structure, rtt_status, rtt_maybe_new_status, rtt_command_rx,
                   rtt_ncommands,
                   rtt_channel, rtt_written, rtt_buffer, rtt_sampled, rtt_received>>
    /\ UNCHANGED notRtt

NextRtt ==
    \/ rtt_sampler_thread
    \/ rtt_target_writes
    \/ rtt_command_tx_send
    \/ rtt_Initializing
    \/ rtt_try_recv
    \/ rtt_read
    \/ rtt_decode
    \/ rtt_notify
    \/ rtt_Terminated

SpecRtt == Init /\ [][NextRtt]_vars

\* the number of complete packets among the bytes the worker read
PacketsReceived ==
    IF packet_size(rtt_packet_structure) = 0 THEN 0
    ELSE Len(rtt_received) \div packet_size(rtt_packet_structure)

\* the bytes of the k-th group of packet_size bytes the worker read, counted from 1
PacketBytes(k) ==
    LET size == packet_size(rtt_packet_structure)
    IN  [i \in 1..size |-> rtt_received[(k - 1) * size + i].byte]

\* the status the worker had when it read the last byte of the k-th packet
PacketStatus(k) == rtt_received[k * packet_size(rtt_packet_structure)].status

\* the Sample of the k-th packet: the timestamp of its first four bytes, and the value of
\* each field, decoded from the field's own bytes, under the ids 0, 1, ..
PacketSample(k) ==
    LET bytes == PacketBytes(k)
        fields == rtt_packet_structure.fields
        prefix == IF Len(bytes) < 4 THEN Len(bytes) ELSE 4
        offset(i) == (IF rtt_packet_structure.has_u32_us_time THEN 4 ELSE 0)
                        + sum_of_sizes(SubSeq(fields, 1, i - 1))
    IN  [timestamp |-> from_le_bytes(SubSeq(bytes, 1, prefix)),
         samples |-> [i \in 1..Len(fields) |->
                        [id |-> i - 1,
                         y |-> RTTScopePacketField_decode(
                                  fields[i], SubSeq(bytes, offset(i) + 1,
                                                    offset(i) + fields[i].size)).value]]]

\* the Samples of the first n packets that were read in Sampling, in the order of the stream
RECURSIVE SamplesOfPackets(_)
SamplesOfPackets(n) ==
    IF n = 0 THEN <<>>
    ELSE IF PacketStatus(n) = "Sampling"
           THEN Append(SamplesOfPackets(n - 1), PacketSample(n))
           ELSE SamplesOfPackets(n - 1)

\* the worker is between two turns of its loop, or has returned
BetweenReads == rtt_pc \in {"loop", "notify", "done", "err"}

\* the bytes read after the last complete packet
IncompletePacket ==
    LET size == packet_size(rtt_packet_structure)
    IN  [i \in 1..(Len(rtt_received) - PacketsReceived * size) |->
            rtt_received[PacketsReceived * size + i].byte]

\* one Sample per packet read in Sampling, none for a packet read in Paused, and the
\* bytes of the incomplete packet still in the buffer
SamplesFollowPackets ==
    /\ rtt_sampled = SamplesOfPackets(PacketsReceived)
    /\ rtt_pc \in {"loop", "notify", "done"} => rtt_buffer = IncompletePacket

IsPrefix(a, b) == Len(a) <= Len(b) /\ SubSeq(b, 1, Len(a)) = a

\* the positions of the worker's log where `op` was done
LogPositions(op) == {i \in 1..Len(wire_log) : wire_log[i].op = op}

\* the worker has sent the notification n
HasNotified(n) == \E i \in 1..Len(emitted) : emitted[i] = n

\* C22: in the MemSampler a Timeout while reading the response to a memory-read request
\* does not terminate the worker and produces no Error and no NewStatus(Terminated)
\* notification: the worker stays in Sampling.
C22_TimeoutIsRecoverable ==
    (backend = "Mem" /\ status = "Sampling" /\ Mem_response = "Timeout") =>
        /\ WorkerRunning
        /\ ~HasNotified(Error)
        /\ ~HasNotified(NewStatus("Terminated"))

\* C23: when an RTT worker whose `rtt server start` succeeded has exited, by a Stop
\* command or by a fatal error, it has issued `rtt server stop` before.
C23_ServerStopIssued ==
    (backend = "RTT" /\ is_finished
     /\ \E i \in LogPositions("rtt server start") : wire_log[i].result = "ok") =>
        LogPositions("rtt server stop") # {}

Handshake ==
    <<[op |-> "connect", result |-> "OK"],
      [op |-> "read_response", result |-> "Ack"],
      [op |-> "send_packet QStartNoAckMode", result |-> "OK"],
      [op |-> "read_response", result |-> "Ack"],
      [op |-> "read_response", result |-> "OK"]>>

\* the last step of the handshake that was made did not return what is expected
HandshakeFailed ==
    /\ wire_log # <<>>
    /\ Len(wire_log) <= Len(Handshake)
    /\ wire_log[Len(wire_log)] # Handshake[Len(wire_log)]

\* C25: the MemSampler announces NewStatus(Sampling) and issues memory reads only after
\* it has read an initial Ack, sent QStartNoAckMode, read an Ack and read the packet OK,
\* in this order; any other response or error at one of these steps ends the worker with
\* an Error notification and Sampling is never entered.
C25_HandshakeBeforeSampling ==
    backend = "Mem" =>
        /\ (\/ HasNotified(NewStatus("Sampling"))
            \/ status # "Initializing"
            \/ maybe_new_status = "Sampling"
            \/ wpc \in {"m_req", "m_read", "m_match"}) => IsPrefix(Handshake, wire_log)
        /\ HandshakeFailed =>
              /\ wpc \in {"wrapper_err", "done_err"}
              /\ status = "Initializing"
              /\ ~HasNotified(NewStatus("Sampling"))
              /\ wpc = "done_err" => HasNotified(Error)

\* the handshake is over and a memory read was requested
C25_Witness == backend = "Mem" /\ status = "Sampling" /\ wpc = "m_read"

\* C26: the MemSampler sends the packet `c` exactly once in a session, directly after the
\* handshake and before any `m` request, and not again when it re-enters Sampling on
\* Resume.
C26_ContinueSentOnce ==
    backend = "Mem" =>
        /\ Cardinality(LogPositions("send_packet c")) <= 1
        /\ \A i \in LogPositions("send_packet c") :
              i = Len(Handshake) + 1 /\ IsPrefix(Handshake, wire_log)
        /\ (wpc \in {"m_read", "m_match"} \/ status \in {"Sampling", "Paused"}) =>
              /\ Len(wire_log) > Len(Handshake)
              /\ wire_log[Len(Handshake) + 1] = [op |-> "send_packet c", result |-> "OK"]

\* the worker was paused, resumed, and is in a tick of Sampling again, with one `c` sent
C26_Witness ==
    /\ backend = "Mem" /\ status = "Sampling" /\ wpc = "m_req"
    /\ Cardinality(LogPositions("send_packet c")) = 1
    /\ \E i, j \in 1..Len(emitted) :
          i < j /\ emitted[i] = NewStatus("Paused") /\ emitted[j] = NewStatus("Sampling")

\* the worker's step at the end of the for loop of a tick of the MemSampler
Mem_tick_ends == backend = "Mem" /\ wpc = "m_req" /\ idx > Len(active_ids) /\ wpc' # wpc

Dequeues == WorkerRunning /\ command_q # <<>> /\ command_q' = Tail(command_q)

\* the same worker goes on running
SameWorker == WorkerRunning' /\ backend' = backend /\ nstarts' = nstarts

\* C28: the active list of the FakeSampler is the list of the last SetActiveSignals
\* command it has processed; every Sample it builds and sends has the entries of that
\* list, in that order, and none is built while the list is empty.
C28_SamplesOfActiveSignals ==
    [][(backend = "Fake" /\ SameWorker) =>
          /\ active_ids' # active_ids =>
                /\ Dequeues
                /\ Head(command_q).op = "SetActiveSignals"
          /\ (Dequeues /\ Head(command_q).op = "SetActiveSignals") =>
                active_ids' = Head(command_q).ids
          /\ (pending' # pending /\ pending' # <<>>) =>
                /\ active_ids # <<>>
                /\ pending'[1].ids = active_ids
                /\ active_ids' = active_ids
          /\ sampled_q' # sampled_q /\ Len(sampled_q') > Len(sampled_q) =>
                sampled_q'[Len(sampled_q')].ids = active_ids]_vars

\* the FakeSampler has sent a Sample of the two signals 1 and 0, in this order
C28_Witness ==
    /\ backend = "Fake"
    /\ sampled_q # <<>>
    /\ sampled_q[Len(sampled_q)].ids = <<1, 0>>
    /\ active_ids = <<1, 0>>

\* the worker's part of C29: it takes commands from the head of the channel only; a Pause
\* taken in Sampling asks for Paused and a Resume taken in Paused for Sampling, a Pause
\* taken in Paused and a Resume taken in Sampling ask for nothing, change no status and
\* notify nothing; the bottom of the loop announces the status asked for iff it differs
\* from the current one; the status changes nowhere else
CommandEffects ==
    /\ (SameWorker /\ command_q' # command_q) =>
          \/ Dequeues
          \/ Len(command_q') = Len(command_q) + 1 /\ IsPrefix(command_q, command_q')
    /\ (SameWorker /\ Dequeues /\ Len(command_q') < Len(command_q)) =>
          LET c == Head(command_q)
          IN  /\ wpc = "loop"
              /\ (c = Pause /\ status = "Sampling") => maybe_new_status' = "Paused"
              /\ (c = Resume /\ status = "Paused") => maybe_new_status' = "Sampling"
              /\ ((c = Pause /\ status = "Paused") \/ (c = Resume /\ status = "Sampling")) =>
                    /\ maybe_new_status' = "None"
                    /\ UNCHANGED <<status, emitted, notif_q>>
    /\ (SameWorker /\ wpc = "notify" /\ wpc' # "notify" /\ handle) =>
          IF maybe_new_status \notin {"None", status}
            THEN /\ emitted' = Append(emitted, NewStatus(maybe_new_status))
                 /\ status' = maybe_new_status
            ELSE UNCHANGED <<status, emitted>>
    /\ (SameWorker /\ status' # status) => wpc = "notify"
    /\ (SameWorker /\ maybe_new_status' # maybe_new_status) => wpc \in {"loop", "notify"}

\* C29 as stated: every pause() or resume() call enqueues exactly one command; the worker
\* dequeues each command at most once, in order, with the effects on the status above.
C29_OneCommandPerCall ==
    [][/\ pause => command_q' = Append(command_q, Pause)
       /\ resume => command_q' = Append(command_q, Resume)
       /\ CommandEffects]_vars

\* C29, amended: a pause() or resume() call enqueues exactly one command while the worker
\* runs, and none once the worker has exited; the worker dequeues each command at most
\* once, in order, with the effects on the status above.
C29_OneCommandPerCallWhileRunning ==
    [][/\ pause =>
              command_q' = IF WorkerRunning THEN Append(command_q, Pause) ELSE command_q
       /\ resume =>
              command_q' = IF WorkerRunning THEN Append(command_q, Resume) ELSE command_q
       /\ CommandEffects]_vars

\* a Pause was taken in Sampling and announced, then a Resume was taken in Paused and
\* announced; the two calls are the only commands of the session
C29_Witness ==
    /\ ncmds = 2 /\ command_q = <<>>
    /\ \E i, j \in 1..Len(emitted) :
          i < j /\ emitted[i] = NewStatus("Paused") /\ emitted[j] = NewStatus("Sampling")

(***************************************************************************)
(* The wait for the reply of a memory read, the exits of the workers and   *)
(* the Samples around Stop and Pause (under Spec).                         *)
(***************************************************************************)
\* C35: while the MemSampler waits for the reply to an `m` request, a packet `O` is
\* skipped: it adds no entry, sends nothing and the wait goes on; the packet with a
\* hexadecimal word that follows gives the entry of that request and ends the wait, and
\* no entry is added in any other way.
C35_ConsolePacketsSkipped ==
    [][/\ (backend = "Mem" /\ wpc = "m_match" /\ wpc' # wpc /\ Mem_response = "O") =>
              /\ wpc' = "m_read"
              /\ UNCHANGED <<idx, samples, pending, sampled_q, nsent, emitted, status,
                             maybe_new_status>>
       /\ (backend = "Mem" /\ wpc = "m_match" /\ wpc' # wpc /\ Mem_response = "hex") =>
              /\ wpc' = "m_req"
              /\ samples' = Append(samples, active_ids[idx])
              /\ idx' = idx + 1
       /\ (backend = "Mem" /\ SameWorker /\ samples' # samples /\ samples' # <<>>) =>
              wpc = "m_match" /\ Mem_response = "hex"]_vars

\* a packet `O` was skipped and the MemSampler waits for the reply again
C35_Witness ==
    /\ backend = "Mem" /\ status = "Sampling"
    /\ wpc = "m_read" /\ Mem_response = "O"
    /\ idx = 2 /\ Len(samples) = 1

\* C38: whenever stop() finds that the worker has dropped its command receiver, the
\* worker thread has finished (the debug_assert of stop() holds).
C38_StopFindsWorkerFinished ==
    [][(stop /\ ~WorkerRunning) => is_finished]_vars

\* C39: once the worker has taken a Stop or a Pause command while Sampling, it sends no
\* Sample before it announces the new status.
C39_NoSampleBeforeNewStatus ==
    [][(SameWorker /\ status = "Sampling" /\ maybe_new_status \in {"Terminated", "Paused"}) =>
          nsent' = nsent /\ pending' = pending]_vars

\* C40: when an RTT worker that has halted the target (halt succeeded, or timed out and
\* the target was taken as halted) is no longer running, it has issued resume after the
\* halt.
C40_ResumeAfterHalt ==
    (backend = "RTT" /\ wpc # "none" /\ ~WorkerRunning) =>
        \A i \in LogPositions("halt") :
            wire_log[i].result \in {"ok", "timeout"} =>
                \E j \in LogPositions("resume") : j > i
====
